---- MODULE Spec2Model ----
(***************************************************************************)
(* Model of the Monday.com BI agent backend (src/backend).                 *)
(*                                                                         *)
(*   Spec       one turn of the /api/chat endpoint: the LangGraph loop     *)
(*              reasoning_node <-> tool_execution_node (agent/graph.py)    *)
(*              driven by chat() (main.py).                                *)
(*   SpecQuery  one call of MondayClient.execute_query (monday_client.py)  *)
(*              against every sequence of outcomes of the external system. *)
(*   SpecRates  the win-rate and collection-rate computations of           *)
(*              agent/tools.py applied to bounded sets of cleaned records. *)
(*   SpecJoin   cross_board_analysis (agent/tools.py) applied to bounded   *)
(*              boards of cleaned deals and work orders.                   *)
(*   SpecTruncate  the success path of one tool_execution_node iteration   *)
(*              on results whose item lists are around 50 entries long.    *)
(*   SpecSession   turns of /api/chat and /api/chat/stream on one          *)
(*              conversation, one after the other (main.py).               *)
(*   SpecCaveats   one chat() turn whose tools return different caveats.   *)
(*   SpecCleaner   tool invocations sharing the data_cleaner singleton     *)
(*              (data_cleaner.py, agent/tools.py) on one event loop.       *)
(*   SpecFetch     one call of MondayClient.get_board_items: the first     *)
(*              page and the pages that follow its cursor.                 *)
(*   SpecTraces    one chat() turn whose tool calls are timed by a wall    *)
(*              clock that may be set back.                                *)
(*   SpecClean     DataCleaner.clean_deals and clean_workorders applied    *)
(*              to bounded boards of raw records (data_cleaner.py).        *)
(*   SpecParse     MondayClient.parse_items_to_records applied to bounded  *)
(*              item lists.                                                *)
(*   SpecOverlap   turns of /api/chat and /api/chat/stream on one          *)
(*              conversation that run at the same time (main.py).          *)
(*                                                                         *)
(* Percentages are kept in tenths of a percent (1000 stands for 100.0).    *)
(***************************************************************************)
EXTENDS Integers, Sequences, FiniteSets, TLC

VARIABLES
    \* ---- chat() and the agent graph -------------------------------------
    pc,             \* position of the turn: chat_start, reasoning, tools, responded, http500
    conversations,  \* main.py: conversations (conv_id -> stored history)
    chat_messages,  \* chat(): local `messages` = history + [HumanMessage]
    messages,       \* AgentState.messages
    tool_traces,    \* AgentState.tool_traces
    data_caveats,   \* AgentState.data_caveats
    llm_input,      \* the message list handed to llm_with_tools.ainvoke last
    loop_i,         \* tool_execution_node: index of the for loop over tool_calls
    new_messages,   \* tool_execution_node: local new_messages
    new_traces,     \* tool_execution_node: local new_traces
    new_caveats,    \* tool_execution_node: local new_caveats
    invoked,        \* call ids for which tool_fn.ainvoke was called, in order
    rounds,         \* number of Reasoning outputs that carried ToolCalls
    next_id,        \* next ToolCall identifier the reasoning capability hands out
    response,       \* what chat() returns to the caller
    \* ---- MondayClient.execute_query --------------------------------------
    q_pc,           \* idle (other specifications), loop, returned, failed
    attempt,        \* the for-loop variable `attempt`
    requests,       \* number of client.post calls made
    sleeps,         \* arguments of asyncio.sleep, in order
    outcomes,       \* what the external system answered to each request
    q_result,       \* the returned response or the raised exception
    \* ---- aggregation tools -----------------------------------------------
    r_pc,           \* idle (other specifications), ready, done
    cleaned_deals,  \* cleaned deal records handed to the tool
    cleaned_wos,    \* cleaned work-order records handed to the tool
    tool_result,    \* the part of the tool's result the claims are about
    \* ---- one tool_execution_node iteration on a large result ------------
    t_pc,           \* idle (other specifications), ready, done
    raw_result,     \* the dict `await tool_fn.ainvoke(tool_args)` returned
    step_result,    \* the tool message, trace and caveats of the iteration
    \* ---- chat_stream.event_generator and the turns of a session ---------
    events,         \* the SSE events yielded so far, in order
    accumulated_response,  \* event_generator: accumulated_response
    turns,          \* number of turns started on the conversation
    \* ---- the data_cleaner singleton and the tools using it --------------
    cleaning_log,   \* data_cleaner.cleaning_log
    invocations,    \* the tool invocations in flight and what they returned
    \* ---- MondayClient.get_board_items ------------------------------------
    f_pc,           \* idle (other specifications), first_page, paging, returned, failed
    cursor,         \* get_board_items: local `cursor`
    all_items,      \* get_board_items: local `all_items`
    page_requests,  \* the cursor argument of each execute_query call, in order
    fetch_result,   \* what the calling tool receives: the items or the exception
    \* ---- parse_items_to_records and the DataCleaner functions ------------
    p_pc,           \* idle (other specifications), ready, done
    p_input,        \* the argument the function is applied to
    p_output,       \* what the function returned
    \* ---- turns of one conversation that overlap in time ------------------
    in_flight,      \* per turn: its position and the locals of chat() / event_generator
    completed       \* the turns that reached the end of their handler, in order

agent_vars == <<pc, conversations, chat_messages, messages, tool_traces,
                data_caveats, llm_input, loop_i, new_messages, new_traces,
                new_caveats, invoked, rounds, next_id, response>>
query_vars == <<q_pc, attempt, requests, sleeps, outcomes, q_result>>
rates_vars == <<r_pc, cleaned_deals, cleaned_wos, tool_result>>
trunc_vars == <<t_pc, raw_result, step_result>>
stream_vars == <<events, accumulated_response, turns>>
cleaner_vars == <<cleaning_log, invocations>>
fetch_vars == <<f_pc, cursor, all_items, page_requests, fetch_result>>
pure_vars == <<p_pc, p_input, p_output>>
overlap_vars == <<in_flight, completed>>
vars == <<agent_vars, query_vars, rates_vars, trunc_vars, stream_vars, cleaner_vars,
          fetch_vars, pure_vars, overlap_vars>>

Null == "null"

(***************************************************************************)
(* Bounds of the exploration                                               *)
(***************************************************************************)
MaxRounds == 2
MaxCalls == 2
MaxDeals == 3
MaxWorkOrders == 2
ManyWon == 2000

(***************************************************************************)
(* Generic helpers                                                         *)
(***************************************************************************)
Last(s) == s[Len(s)]

Range(s) == {s[i] : i \in 1..Len(s)}

SeqsUpTo(S, n) == UNION {[1..k -> S] : k \in 0..n}

\* Python s[-n:]
LastN(s, n) == IF Len(s) <= n THEN s ELSE SubSeq(s, Len(s) - n + 1, Len(s))

(***************************************************************************)
(* Messages                                                                *)
(***************************************************************************)
NoPayload == [kind |-> "none", error |-> <<>>, result |-> <<>>]

SYSTEM_PROMPT == "SYSTEM_PROMPT"

SystemMessage(c) ==
    [type |-> "system", content |-> c, tool_calls |-> <<>>,
     tool_call_id |-> 0, payload |-> NoPayload]

HumanMessage(c) ==
    [type |-> "human", content |-> c, tool_calls |-> <<>>,
     tool_call_id |-> 0, payload |-> NoPayload]

AIMessage(c, tcs) ==
    [type |-> "ai", content |-> c, tool_calls |-> tcs,
     tool_call_id |-> 0, payload |-> NoPayload]

\* ToolMessage(content=json.dumps(payload), tool_call_id=call_id)
ToolMessage(p, id) ==
    [type |-> "tool", content |-> "", tool_calls |-> <<>>,
     tool_call_id |-> id, payload |-> p]

(***************************************************************************)
(* The tool catalog and what a tool invocation can do                      *)
(***************************************************************************)
ALL_TOOLS ==
    {"query_deals_board", "query_workorders_board", "cross_board_analysis",
     "aggregate_metrics", "get_data_summary"}

\* a lookup that finds a function for every name
tool_map_Any(name) == name

\* tool_map = {t.name: t for t in ALL_TOOLS}; tool_map.get(name)
tool_map(name) == IF name \in ALL_TOOLS THEN name ELSE Null

\* names the reasoning capability may put in a ToolCall
CallNames == {"query_deals_board", "no_such_tool"}

\* An optional value (a dict key that may be missing, a Python None) is a
\* sequence of length 0 or 1.
None == <<>>
Some(v) == <<v>>

\* result dicts of the tools: the keys tool_execution_node and
\* _truncate_result read (src/backend/agent/tools.py:130-164, 828-834)
ResultDict(td, cav, items) ==
    [total_deals |-> td, total_work_orders |-> None, common_deal_count |-> None,
     caveats |-> cav, cleaning_steps |-> <<>>,
     deals |-> items, work_orders |-> None, lifecycle |-> None]

NoResult == ResultDict(None, <<>>, None)

ToolResults(name) ==
    IF name = "query_deals_board"
    THEN {ResultDict(Some(2), <<"cv_value">>, Some(<<1, 2>>))}
    ELSE {ResultDict(None, <<"cv_value", "cv_wo">>, None)}

\* what `await tool_fn.ainvoke(tool_args)` does: returns a dict or raises
ToolOutcomes(name) ==
    {[ok |-> TRUE, result |-> r, error |-> <<>>] : r \in ToolResults(name)}
    \cup {[ok |-> FALSE, result |-> NoResult,
            error |-> <<"Monday.com API timeout after 3 retries">>]}

\* the lookup failing: raise ValueError(f"Unknown tool: {tool_name}")
UnknownToolError(name) == <<"Unknown tool: ", name>>

(***************************************************************************)
(* tool_execution_node, one ToolCall (agent/graph.py:51-127)               *)
(***************************************************************************)
Truthy(opt) == opt # None /\ opt[1] # 0

\* result.get("total_deals") or result.get("total_work_orders")
\*     or result.get("common_deal_count") or 0
items_count(result) ==
    IF Truthy(result.total_deals) THEN result.total_deals[1]
    ELSE IF Truthy(result.total_work_orders) THEN result.total_work_orders[1]
    ELSE IF Truthy(result.common_deal_count) THEN result.common_deal_count[1]
    ELSE 0

\* trace = {"tool_name": ..., "parameters": ..., "status": "running", ...}
TraceRunning(call) ==
    [tool_name |-> call.name, parameters |-> call.args, status |-> "running",
     items_returned |-> None, cleaning_steps |-> None, result_summary |-> None]

\* trace.update({"status": "completed", ...}) for a dict result
TraceCompleted(trace, result) ==
    [trace EXCEPT !.status = "completed",
                  !.items_returned = Some(items_count(result)),
                  !.cleaning_steps = Some(result.cleaning_steps),
                  !.result_summary = Some(<<"items returned: ", items_count(result)>>)]

\* trace.update({"status": "error", ...})
TraceError(trace, e) ==
    [trace EXCEPT !.status = "error",
                  !.result_summary = Some(<<"Error: ", e>>)]

\* _truncate_result(result, max_items=50)
max_items == 50

\* a cut that keeps the end of the list
TruncateList_Tail(opt) ==
    IF opt # None /\ Len(opt[1]) > 50
    THEN Some(SubSeq(opt[1], Len(opt[1]) - 49, Len(opt[1]))) ELSE opt

\* truncated[key] = value[:max_items] if value is a list longer than
\* max_items, else value
TruncateList(opt) ==
    IF opt # None /\ Len(opt[1]) > max_items
    THEN Some(SubSeq(opt[1], 1, max_items)) ELSE opt

TruncFlag(opt) ==
    IF opt # None /\ Len(opt[1]) > max_items THEN Some(TRUE) ELSE None

TruncTotal(opt) ==
    IF opt # None /\ Len(opt[1]) > max_items THEN Some(Len(opt[1])) ELSE None

\* a truncation that also sets the counts to what is shown
truncate_result_CountsShown(result) ==
    LET Shown(count, opt) ==
            IF opt # None /\ Len(opt[1]) > 50 THEN Some(50) ELSE count
    IN [total_deals |-> Shown(result.total_deals, result.deals),
        total_work_orders |-> Shown(result.total_work_orders, result.work_orders),
        common_deal_count |-> Shown(result.common_deal_count, result.lifecycle),
        caveats |-> result.caveats,
        cleaning_steps |-> result.cleaning_steps,
        deals |-> TruncateList(result.deals),
        deals_truncated |-> TruncFlag(result.deals),
        deals_total |-> TruncTotal(result.deals),
        work_orders |-> TruncateList(result.work_orders),
        work_orders_truncated |-> TruncFlag(result.work_orders),
        work_orders_total |-> TruncTotal(result.work_orders),
        lifecycle |-> TruncateList(result.lifecycle),
        lifecycle_truncated |-> TruncFlag(result.lifecycle),
        lifecycle_total |-> TruncTotal(result.lifecycle)]

\* _truncate_result(result): the item lists cut, every other key copied
truncate_result(result) ==
    [total_deals |-> result.total_deals,
     total_work_orders |-> result.total_work_orders,
     common_deal_count |-> result.common_deal_count,
     caveats |-> result.caveats,
     cleaning_steps |-> result.cleaning_steps,
     deals |-> TruncateList(result.deals),
     deals_truncated |-> TruncFlag(result.deals),
     deals_total |-> TruncTotal(result.deals),
     work_orders |-> TruncateList(result.work_orders),
     work_orders_truncated |-> TruncFlag(result.work_orders),
     work_orders_total |-> TruncTotal(result.work_orders),
     lifecycle |-> TruncateList(result.lifecycle),
     lifecycle_truncated |-> TruncFlag(result.lifecycle),
     lifecycle_total |-> TruncTotal(result.lifecycle)]

\* the body of `try:` after the tool returned a dict
SuccessBranch(call, result) ==
    [message |-> <<ToolMessage([kind |-> "result", error |-> None,
                                result |-> Some(truncate_result(result))], call.id)>>,
     trace |-> TraceCompleted(TraceRunning(call), result),
     caveats |-> result.caveats]

\* a variant that records the trace of a failure but sends no tool message
ExceptBranch_NoMessage(call, e) ==
    [message |-> <<>>,
     trace |-> TraceError(TraceRunning(call), e),
     caveats |-> <<>>]

\* the body of `except Exception as e:`
ExceptBranch(call, e) ==
    [message |-> <<ToolMessage([kind |-> "error", error |-> Some(e),
                                result |-> None], call.id)>>,
     trace |-> TraceError(TraceRunning(call), e),
     caveats |-> <<>>]

\* a variant that puts each new tool message in front of the earlier ones
AppendResult_Front(msgs, step_msgs) == step_msgs \o msgs

\* new_messages.append(ToolMessage(...))
AppendResult(msgs, step_msgs) == msgs \o step_msgs

\* the outcomes one loop iteration can have: the lookup fails before any
\* tool function runs, or the tool function returns or raises
CallOutcomes(name) ==
    IF tool_map(name) = Null
    THEN {[ok |-> FALSE, result |-> NoResult, error |-> UnknownToolError(name)]}
    ELSE ToolOutcomes(name)

\* one iteration of `for tool_call in tool_calls:`
RunToolCall(call, o) ==
    IF tool_map(call.name) = Null THEN ExceptBranch(call, UnknownToolError(call.name))
    ELSE IF o.ok THEN SuccessBranch(call, o.result)
    ELSE ExceptBranch(call, o.error)

(***************************************************************************)
(* The reasoning capability (llm_with_tools.ainvoke) and the graph         *)
(***************************************************************************)
ConvIds == {"c1"}
UserMessages == {"q1"}
Answers == {"answer_a", "answer_b"}
ArgSets == {"{}"}

\* histories a conversation can hold before the turn: none, or one exchange
StoredHistories == {<<>>, <<HumanMessage("q0"), AIMessage("answer_a", <<>>)>>}

\* n ToolCalls with fresh identifiers first, first+1, ...
ToolCallSeqs(first, n) ==
    {[k \in 1..n |-> [name |-> names[k], args |-> args[k], id |-> first + k - 1]] :
        names \in [1..n -> CallNames], args \in [1..n -> ArgSets]}

\* reasoning_node: prepend the system prompt if it is not already there
WithSystemPrompt(msgs) ==
    IF msgs = <<>> \/ msgs[1].type # "system"
    THEN <<SystemMessage(SYSTEM_PROMPT)>> \o msgs ELSE msgs

\* a router that ends the turn on a single ToolCall
should_continue_Single(msgs) ==
    IF Len(Last(msgs).tool_calls) > 1 THEN "tools" ELSE "end"

\* should_continue: route to tool execution or end
should_continue(msgs) ==
    IF Last(msgs).tool_calls # <<>> THEN "tools" ELSE "end"

\* a list(set(xs)) that keeps every occurrence
list_set_Keep(xs) == {xs}

\* list(set(xs)): the distinct elements of xs, each once, in one of the
\* orders the set's iteration can have
list_set(xs) ==
    {s \in [1..Cardinality(Range(xs)) -> Range(xs)] : Range(s) = Range(xs)}

\* chat(): what is returned once graph.ainvoke has returned `msgs`;
\* `caveats` is list(set(result.get("data_caveats", [])))
ChatResponse(msgs, traces, caveats) ==
    [status |-> 200, response |-> Last(msgs).content,
     traces |-> traces, caveats |-> caveats]

\* a store that keeps the last 19 messages
StoreHistory_Last19(conv, input, text) ==
    [conversations EXCEPT ![conv] = LastN(input \o <<AIMessage(text, <<>>)>>, 19)]

\* chat(): conversations[conv_id] = (messages + [AIMessage(response_text)])[-20:]
StoreHistory(conv, input, text) ==
    [conversations EXCEPT ![conv] = LastN(input \o <<AIMessage(text, <<>>)>>, 20)]

NoResponse == [status |-> 0, response |-> "", traces |-> <<>>, caveats |-> <<>>]

Http500 == [status |-> 500, response |-> "", traces |-> <<>>, caveats |-> <<>>]

(***************************************************************************)
(* Spec: one turn of chat()                                                *)
(***************************************************************************)
QueryIdle ==
    /\ q_pc = "idle" /\ attempt = 0 /\ requests = 0
    /\ sleeps = <<>> /\ outcomes = <<>> /\ q_result = <<"none">>

RatesIdle ==
    /\ r_pc = "idle" /\ cleaned_deals = <<>> /\ cleaned_wos = <<>>
    /\ tool_result = <<"none">>

TruncIdle == t_pc = "idle" /\ raw_result = <<>> /\ step_result = <<>>

StreamIdle == events = <<>> /\ accumulated_response = "" /\ turns = 0

CleanerIdle == cleaning_log = <<>> /\ invocations = <<>>

FetchIdle ==
    /\ f_pc = "idle" /\ cursor = <<>> /\ all_items = <<>>
    /\ page_requests = <<>> /\ fetch_result = <<"none">>

PureIdle == p_pc = "idle" /\ p_input = <<>> /\ p_output = <<>>

OverlapIdle == in_flight = <<>> /\ completed = <<>>

AgentIdle ==
    /\ pc = "idle"
    /\ conversations = [c \in ConvIds |-> <<>>]
    /\ chat_messages = <<>> /\ messages = <<>> /\ tool_traces = <<>>
    /\ data_caveats = <<>> /\ llm_input = <<>> /\ loop_i = 0
    /\ new_messages = <<>> /\ new_traces = <<>> /\ new_caveats = <<>>
    /\ invoked = <<>> /\ rounds = 0 /\ next_id = 1
    /\ response = NoResponse

Init ==
    /\ pc = "chat_start"
    /\ conversations \in [ConvIds -> StoredHistories]
    /\ chat_messages = <<>> /\ messages = <<>> /\ tool_traces = <<>>
    /\ data_caveats = <<>> /\ llm_input = <<>> /\ loop_i = 0
    /\ new_messages = <<>> /\ new_traces = <<>> /\ new_caveats = <<>>
    /\ invoked = <<>> /\ rounds = 0 /\ next_id = 1
    /\ response = NoResponse
    /\ QueryIdle /\ RatesIdle /\ TruncIdle /\ StreamIdle /\ CleanerIdle
    /\ FetchIdle /\ PureIdle /\ OverlapIdle

\* chat(): read the history, build the input and call graph.ainvoke
ChatStart ==
    /\ pc = "chat_start"
    /\ \E conv \in ConvIds, q \in UserMessages :
         /\ chat_messages' = conversations[conv] \o <<HumanMessage(q)>>
         /\ messages' = conversations[conv] \o <<HumanMessage(q)>>
    /\ tool_traces' = <<>>
    /\ data_caveats' = <<>>
    /\ pc' = "reasoning"
    /\ UNCHANGED <<conversations, llm_input, loop_i, new_messages, new_traces,
                   new_caveats, invoked, rounds, next_id, response>>
    /\ UNCHANGED <<query_vars, rates_vars, trunc_vars, stream_vars, cleaner_vars,
                 fetch_vars, pure_vars, overlap_vars>>

\* reasoning_node returns `resp`; the conditional edge should_continue routes
\* to the tools node or to END, and at END chat() stores the history and
\* returns the response
ReasoningReturns(resp) ==
    LET msgs == messages \o <<resp>> IN
    /\ llm_input' = WithSystemPrompt(messages)
    /\ messages' = msgs
    /\ next_id' = next_id + Len(resp.tool_calls)
    /\ rounds' = IF resp.tool_calls # <<>> THEN rounds + 1 ELSE rounds
    /\ IF should_continue(msgs) = "tools"
       THEN /\ pc' = "tools"
            /\ loop_i' = 1
            /\ new_messages' = <<>>
            /\ new_traces' = <<>>
            /\ new_caveats' = <<>>
            /\ UNCHANGED <<conversations, response>>
       ELSE /\ pc' = "responded"
            /\ \E caveats \in list_set(data_caveats) :
                 response' = ChatResponse(msgs, tool_traces, caveats)
            /\ conversations' = StoreHistory("c1", chat_messages, Last(msgs).content)
            /\ UNCHANGED <<loop_i, new_messages, new_traces, new_caveats>>
    /\ UNCHANGED <<chat_messages, tool_traces, data_caveats, invoked>>
    /\ UNCHANGED <<query_vars, rates_vars, trunc_vars, stream_vars, cleaner_vars,
                 fetch_vars, pure_vars, overlap_vars>>

\* the reasoning capability answers with text and no ToolCalls
ReasoningAnswers ==
    /\ pc = "reasoning"
    /\ \E a \in Answers : ReasoningReturns(AIMessage(a, <<>>))

\* the reasoning capability asks for 1..MaxCalls tool invocations
ReasoningCallsTools ==
    /\ pc = "reasoning"
    /\ rounds < MaxRounds
    /\ \E n \in 1..MaxCalls : \E tcs \in ToolCallSeqs(next_id, n) :
         ReasoningReturns(AIMessage("", tcs))

\* llm_with_tools.ainvoke raises: graph.ainvoke raises and chat() answers
\* HTTP 500 without touching the stored history
ReasoningRaises ==
    /\ pc = "reasoning"
    /\ llm_input' = WithSystemPrompt(messages)
    /\ pc' = "http500"
    /\ response' = Http500
    /\ UNCHANGED <<conversations, chat_messages, messages, tool_traces,
                   data_caveats, loop_i, new_messages, new_traces, new_caveats,
                   invoked, rounds, next_id>>
    /\ UNCHANGED <<query_vars, rates_vars, trunc_vars, stream_vars, cleaner_vars,
                 fetch_vars, pure_vars, overlap_vars>>

\* the SSE events chat_stream.event_generator yields (main.py:122-198)
SessionEvent(conv) ==
    [type |-> "session", text |-> conv, tool |-> "", items |-> 0, run_id |-> 0]

ToolStartEvent(call) ==
    [type |-> "tool_start", text |-> call.args, tool |-> call.name,
     items |-> 0, run_id |-> call.id]

ToolEndEvent(call, result) ==
    [type |-> "tool_end", text |-> "items returned", tool |-> call.name,
     items |-> items_count(result), run_id |-> call.id]

TokenEvent(content) ==
    [type |-> "token", text |-> content, tool |-> "", items |-> 0, run_id |-> 0]

DoneEvent ==
    [type |-> "done", text |-> "", tool |-> "", items |-> 0, run_id |-> 0]

ErrorEvent(e) ==
    [type |-> "error", text |-> e, tool |-> "", items |-> 0, run_id |-> 0]

\* what graph.astream_events reports of one ToolCall and event_generator
\* turns into SSE events: on_tool_start when tool_fn.ainvoke starts a tool
\* run, on_tool_end when that run returns; a run that raises ends without
\* on_tool_end, and an unknown name starts no run at all
ToolEvents(call, o) ==
    IF tool_map(call.name) = Null THEN <<>>
    ELSE IF o.ok THEN <<ToolStartEvent(call), ToolEndEvent(call, o.result)>>
    ELSE <<ToolStartEvent(call)>>

\* two readings of time.time(), in milliseconds, before and after a tool
\* ran: the wall clock has advanced, or it reads lower than before because
\* the system clock was set back in between
WallClock == {<<100000, 100120>>, <<100000, 99880>>}

\* a clock that stands still while a tool runs
FrozenClock == {<<100000, 100000>>}

\* elapsed = round((time.time() - start_time) * 1000)
elapsed_ms(start_time, end_time) == end_time - start_time

\* trace.update({..., "duration_ms": elapsed, ...})
WithDuration(trace, elapsed) ==
    [f \in DOMAIN trace \cup {"duration_ms"} |->
        IF f = "duration_ms" THEN elapsed ELSE trace[f]]

\* tool_execution_node: one iteration of the loop over tool_calls; after the
\* last one the node returns and the graph goes to `back`, the reasoning
\* node. Under astream_events (`streamed`) the tool run's events are yielded.
\* `clock` is what time.time() can read before and after the tool ran.
ToolLoop(back, streamed, clock) ==
    LET tool_calls == Last(messages).tool_calls
        call == tool_calls[loop_i]
    IN \E o \in CallOutcomes(call.name), readings \in clock :
         LET step == RunToolCall(call, o)
             nm == AppendResult(new_messages, step.message)
             nt == Append(new_traces,
                          WithDuration(step.trace, elapsed_ms(readings[1], readings[2])))
             nc == new_caveats \o step.caveats
         IN /\ invoked' = IF tool_map(call.name) # Null
                             THEN Append(invoked, call.id) ELSE invoked
            /\ events' = IF streamed THEN events \o ToolEvents(call, o) ELSE events
            /\ IF loop_i < Len(tool_calls)
               THEN /\ loop_i' = loop_i + 1
                    /\ new_messages' = nm
                    /\ new_traces' = nt
                    /\ new_caveats' = nc
                    /\ UNCHANGED <<pc, messages, tool_traces, data_caveats>>
               ELSE /\ messages' = messages \o nm
                    /\ tool_traces' = tool_traces \o nt
                    /\ data_caveats' \in list_set(data_caveats \o nc)
                    /\ pc' = back
                    /\ loop_i' = 0
                    /\ new_messages' = <<>>
                    /\ new_traces' = <<>>
                    /\ new_caveats' = <<>>

\* tool_execution_node inside graph.ainvoke (chat), durations left aside
ToolExecution ==
    /\ pc = "tools"
    /\ ToolLoop("reasoning", FALSE, FrozenClock)
    /\ UNCHANGED <<conversations, chat_messages, llm_input, rounds, next_id, response>>
    /\ UNCHANGED <<accumulated_response, turns>>
    /\ UNCHANGED <<query_vars, rates_vars, trunc_vars, cleaner_vars,
                 fetch_vars, pure_vars, overlap_vars>>

Next ==
    \/ ChatStart
    \/ ReasoningAnswers
    \/ ReasoningCallsTools
    \/ ReasoningRaises
    \/ ToolExecution

Spec == Init /\ [][Next]_vars

(***************************************************************************)
(* Properties of the agent loop                                            *)
(***************************************************************************)
IsToolMsg(m) == m.type = "tool"

ToolMsgs(msgs) == SelectSeq(msgs, IsToolMsg)

ToolIds(msgs) == [j \in 1..Len(ToolMsgs(msgs)) |-> ToolMsgs(msgs)[j].tool_call_id]

Iota(n) == [j \in 1..n |-> j]

\* index of the most recent Reasoning output in msgs
LastAIIndex(msgs) ==
    CHOOSE k \in 1..Len(msgs) :
        msgs[k].type = "ai" /\ \A j \in (k + 1)..Len(msgs) : msgs[j].type # "ai"

\* all ToolCalls the reasoning capability issued in this turn, in issue order
RECURSIVE IssuedCalls(_)
IssuedCalls(msgs) ==
    IF msgs = <<>> THEN <<>>
    ELSE IssuedCalls(SubSeq(msgs, 1, Len(msgs) - 1)) \o Last(msgs).tool_calls

RoundDone == pc = "reasoning" /\ rounds > 0

\* C1: when a ToolExecution step hands control back to Reasoning, every
\* ToolCall of the most recent Reasoning output has exactly one tool-result
\* message with its identifier and exactly one trace entry, error or not;
\* before that the history is untouched, and no call is dispatched twice
\* or skipped.
C1_OneResultAndTracePerCall ==
    /\ RoundDone =>
         LET k == LastAIIndex(messages)
             tcs == messages[k].tool_calls
             base == Len(tool_traces) - Len(tcs)
         IN /\ tcs # <<>>
            /\ Len(messages) = k + Len(tcs)
            /\ \A c \in 1..Len(tcs) :
                 Cardinality({j \in (k + 1)..Len(messages) :
                     IsToolMsg(messages[j]) /\ messages[j].tool_call_id = tcs[c].id}) = 1
            /\ Len(tool_traces) = Len(IssuedCalls(messages))
            /\ \A c \in 1..Len(tcs) :
                 /\ tool_traces[base + c].tool_name = tcs[c].name
                 /\ tool_traces[base + c].status \in {"completed", "error"}
    /\ pc = "tools" =>
         /\ Last(messages).type = "ai"
         /\ loop_i \in 1..Len(Last(messages).tool_calls)
         /\ Len(new_messages) = loop_i - 1
         /\ Len(new_traces) = loop_i - 1
    /\ \A a, b \in 1..Len(invoked) : a # b => invoked[a] # invoked[b]

\* a ToolExecution step of two calls, one failing and one succeeding, is over
C1_Witness ==
    /\ RoundDone
    /\ Len(messages[LastAIIndex(messages)].tool_calls) = 2
    /\ \E a, b \in 1..Len(tool_traces) :
         tool_traces[a].status = "error" /\ tool_traces[b].status = "completed"

\* C2: a turn performs at most a fixed maximum number of Reasoning /
\* ToolExecution iterations and then surfaces a "could not complete" answer.
\* Stated for a maximum one below the explored depth: the loop of graph.py
\* has no counter and follows the reasoning capability for one more round.
C2_IterationsBounded ==
    \/ rounds < MaxRounds
    \/ pc = "responded" /\ response.response = "could not complete"

\* C3: a failing ToolCall (an unknown tool name included, for which no tool
\* function is invoked) yields a tool-result message with payload
\* {error: message} and a trace entry with status error; the turn is not
\* aborted, the other ToolCalls of the step still run and the loop is back
\* in Reasoning.
C3_FailuresBecomeErrorResults ==
    /\ RoundDone =>
         LET tms == ToolMsgs(messages)
             calls == IssuedCalls(messages)
         IN /\ Len(tms) = Len(calls)
            /\ Len(tool_traces) = Len(calls)
            /\ \A j \in 1..Len(calls) :
                 /\ (tms[j].payload.kind = "error") <=> (tool_traces[j].status = "error")
                 /\ tms[j].payload.kind = "error" =>
                      /\ tms[j].payload.error # None
                      /\ tms[j].payload.result = None
                      /\ tool_traces[j].result_summary =
                            Some(<<"Error: ", tms[j].payload.error[1]>>)
                 /\ calls[j].name \notin ALL_TOOLS =>
                      /\ tms[j].payload.kind = "error"
                      /\ tms[j].payload.error = Some(UnknownToolError(calls[j].name))
                      /\ calls[j].id \notin Range(invoked)
                 /\ (calls[j].name \in ALL_TOOLS) => calls[j].id \in Range(invoked)
    /\ pc = "http500" => Last(messages).type # "ai"

\* a step whose first call named an unknown tool and whose second call ran
C3_Witness ==
    /\ RoundDone
    /\ LET calls == IssuedCalls(messages)
       IN /\ Len(calls) >= 2
          /\ calls[1].name \notin ALL_TOOLS
          /\ calls[2].name \in ALL_TOOLS
          /\ tool_traces[1].status = "error"
          /\ tool_traces[2].status = "completed"

\* every Reasoning output with ToolCalls in msgs is directly followed by the
\* results of its calls, in the order of the calls
ResultsFollow(msgs) ==
    \A k \in 1..Len(msgs) :
        (msgs[k].type = "ai" /\ msgs[k].tool_calls # <<>>) =>
            /\ k + Len(msgs[k].tool_calls) <= Len(msgs)
            /\ \A c \in 1..Len(msgs[k].tool_calls) :
                 /\ IsToolMsg(msgs[k + c])
                 /\ msgs[k + c].tool_call_id = msgs[k].tool_calls[c].id

\* C4: the tool-result messages are in the history in the order their
\* ToolCalls were issued, and every Reasoning step is presented a history
\* that holds all results of the Reasoning steps before it.
C4_ResultsInIssueOrder ==
    /\ ResultsFollow(llm_input)
    /\ pc = "reasoning" =>
         /\ ResultsFollow(messages)
         /\ ToolIds(messages) = Iota(next_id - 1)
    /\ pc \in {"tools", "responded"} =>
         /\ llm_input = WithSystemPrompt(SubSeq(messages, 1, Len(messages) - 1))
         /\ ToolIds(llm_input) = Iota(next_id - 1 - Len(Last(messages).tool_calls))

\* a Reasoning step was presented the two results of the step before it
C4_Witness ==
    /\ pc = "responded"
    /\ Len(ToolIds(llm_input)) >= 2
    /\ Len(llm_input[LastAIIndex(llm_input)].tool_calls) = 2

\* C5: the turn is Terminal exactly when the last Reasoning output has no
\* ToolCalls: an output with ToolCalls is always followed by ToolExecution,
\* an output without ends the loop, the answer returned by chat() is the
\* content of that output, and nothing runs after it.
C5_TerminalIffNoToolCalls ==
    /\ [](/\ pc = "responded" <=>
               (messages # <<>> /\ Last(messages).type = "ai"
                   /\ Last(messages).tool_calls = <<>>)
          /\ pc = "tools" <=>
               (messages # <<>> /\ Last(messages).type = "ai"
                   /\ Last(messages).tool_calls # <<>>)
          /\ pc = "responded" =>
               /\ response.status = 200
               /\ response.response = Last(messages).content
               /\ Len(tool_traces) = Len(IssuedCalls(messages)))
    /\ [][pc = "responded" => UNCHANGED agent_vars]_vars

\* a turn that ran tools and then ended on an answer
C5_Witness ==
    /\ pc = "responded"
    /\ rounds > 0
    /\ response.response \in Answers

(***************************************************************************)
(* SpecQuery: MondayClient.execute_query (monday_client.py:21-68)          *)
(***************************************************************************)
\* a loop of one more attempt
max_retries_Four == 3 + 1

max_retries == 3

\* the Retry-After header of a 429 response
RetryAfterHeaders ==
    {[kind |-> "absent", secs |-> 0],
     [kind |-> "seconds", secs |-> 1],
     [kind |-> "seconds", secs |-> 7],
     [kind |-> "http_date", secs |-> 0]}

\* what the external system can answer to one client.post
Outcomes ==
    {[kind |-> "ok", status |-> 200, header |-> [kind |-> "absent", secs |-> 0], message |-> ""]}
    \cup {[kind |-> "rate_limit", status |-> 429, header |-> h, message |-> ""] :
            h \in RetryAfterHeaders}
    \cup {[kind |-> "timeout", status |-> 0, header |-> [kind |-> "absent", secs |-> 0], message |-> ""]}
    \cup {[kind |-> "http_error", status |-> st, header |-> [kind |-> "absent", secs |-> 0], message |-> ""] :
            st \in {404, 500, 503}}
    \cup {[kind |-> "graphql_error", status |-> 200, header |-> [kind |-> "absent", secs |-> 0], message |-> m] :
            m \in {"Field not found", "Unknown GraphQL error"}}
    \cup {[kind |-> "connect_error", status |-> 0, header |-> [kind |-> "absent", secs |-> 0], message |-> ""]}

\* int(response.headers.get("Retry-After", 5)); defined for an absent or
\* integer header, int() raises ValueError on anything else
retry_after(h) == IF h.kind = "absent" THEN 5 ELSE h.secs

\* a backoff that starts at 2s
Backoff_FromTwo(a) == 2 ^ (a + 1)

\* await asyncio.sleep(2 ** attempt)
Backoff(a) == 2 ^ a

Continue(sleep) == [next |-> "continue", sleep |-> Some(sleep), result |-> <<"none">>]
Return(body) == [next |-> "return", sleep |-> None, result |-> <<"response", body>>]
Raise(kind, detail) == [next |-> "raise", sleep |-> None, result |-> <<kind, detail>>]

\* if response.status_code == 429: sleep(retry_after); continue
OnRateLimit(a, o) ==
    IF o.header.kind = "http_date"
    THEN Raise("ValueError", "invalid literal for int()")
    ELSE Continue(retry_after(o.header))

\* a variant that treats a structured error payload as a transient failure
OnGraphQLError_Retry(a, o) ==
    IF a < max_retries - 1 THEN Continue(Backoff(a))
    ELSE Raise("Exception: Monday.com GraphQL error: ", o.message)

\* if "errors" in result: raise Exception(f"Monday.com GraphQL error: {error_msg}")
OnGraphQLError(a, o) ==
    Raise("Exception: Monday.com GraphQL error: ", o.message)

\* except httpx.TimeoutException
OnTimeout(a, o) ==
    IF a < max_retries - 1 THEN Continue(Backoff(a))
    ELSE Raise("Exception", "Monday.com API timeout after 3 retries")

\* except httpx.HTTPStatusError as e (raised by response.raise_for_status())
OnHttpError(a, o) ==
    IF a < max_retries - 1 /\ o.status >= 500 THEN Continue(Backoff(a))
    ELSE Raise("Exception: Monday.com API error: ", ToString(o.status))

\* the body of the for loop for one answer of the external system: continue
\* (after a sleep), return, or raise; an exception that is neither a timeout
\* nor an HTTP status error leaves execute_query as it is
HandleOutcome(a, o) ==
    IF o.kind = "ok" THEN Return("data")
    ELSE IF o.kind = "rate_limit" THEN OnRateLimit(a, o)
    ELSE IF o.kind = "graphql_error" THEN OnGraphQLError(a, o)
    ELSE IF o.kind = "timeout" THEN OnTimeout(a, o)
    ELSE IF o.kind = "http_error" THEN OnHttpError(a, o)
    ELSE Raise("httpx.ConnectError", "")

\* a loop in which a rate-limit response does not use up an attempt
AfterContinue_RateLimitFree(a, o) == IF o.kind = "rate_limit" THEN a ELSE a + 1

\* `continue` in `for attempt in range(max_retries)`
AfterContinue(a, o) == a + 1

InitQuery ==
    /\ q_pc = "loop" /\ attempt = 0 /\ requests = 0
    /\ sleeps = <<>> /\ outcomes = <<>> /\ q_result = <<"none">>
    /\ AgentIdle /\ RatesIdle /\ TruncIdle /\ StreamIdle /\ CleanerIdle
    /\ FetchIdle /\ PureIdle /\ OverlapIdle

\* one iteration of the for loop: one client.post answered with o; when the
\* loop runs out, the raise after the loop
Request(o) ==
    /\ q_pc = "loop"
    /\ attempt < max_retries
    /\ requests' = requests + 1
    /\ outcomes' = Append(outcomes, o)
    /\ LET h == HandleOutcome(attempt, o) IN
       IF h.next = "continue"
       THEN /\ sleeps' = Append(sleeps, h.sleep[1])
            /\ attempt' = AfterContinue(attempt, o)
            /\ IF AfterContinue(attempt, o) < max_retries
               THEN UNCHANGED <<q_pc, q_result>>
               ELSE /\ q_pc' = "failed"
                    /\ q_result' = <<"Exception", "Monday.com API: max retries exceeded">>
       ELSE /\ q_pc' = IF h.next = "return" THEN "returned" ELSE "failed"
            /\ q_result' = h.result
            /\ UNCHANGED <<sleeps, attempt>>
    /\ UNCHANGED <<agent_vars, rates_vars, trunc_vars, stream_vars, cleaner_vars,
                 fetch_vars, pure_vars, overlap_vars>>

OutcomesOf(kind) == {o \in Outcomes : o.kind = kind}

QuerySucceeds == \E o \in OutcomesOf("ok") : Request(o)
QueryRateLimited == \E o \in OutcomesOf("rate_limit") : Request(o)
QueryTimesOut == \E o \in OutcomesOf("timeout") : Request(o)
QueryHttpError == \E o \in OutcomesOf("http_error") : Request(o)
QueryGraphQLError == \E o \in OutcomesOf("graphql_error") : Request(o)
QueryConnectError == \E o \in OutcomesOf("connect_error") : Request(o)

NextQuery ==
    \/ QuerySucceeds
    \/ QueryRateLimited
    \/ QueryTimesOut
    \/ QueryHttpError
    \/ QueryGraphQLError
    \/ QueryConnectError

SpecQuery == InitQuery /\ [][NextQuery]_vars

(***************************************************************************)
(* Properties of execute_query                                             *)
(***************************************************************************)
QueryOver == q_pc \in {"returned", "failed"}

NumericRateLimit(o) == o.kind = "rate_limit" /\ o.header.kind # "http_date"

MaxRetriesExceeded == <<"Exception", "Monday.com API: max retries exceeded">>

\* C6: whatever the external system answers, one execute_query call sends
\* at most 3 HTTP requests and has then returned or failed.
C6_AtMostThreeRequests ==
    /\ requests <= 3
    /\ requests = Len(outcomes)
    /\ requests = 3 => QueryOver
    /\ q_pc = "loop" => attempt < 3

\* three requests were sent, each answered by a different transient failure
C6_Witness ==
    /\ requests = 3
    /\ q_pc = "failed"
    /\ outcomes[1].kind = "rate_limit"
    /\ outcomes[2].kind = "http_error"
    /\ outcomes[3].kind = "timeout"

C8_StructuredErrorFailsAtOnce ==
    \A i \in 1..Len(outcomes) :
        outcomes[i].kind = "graphql_error" =>
            /\ i = Len(outcomes)
            /\ requests = i
            /\ q_pc = "failed"
            /\ q_result = <<"Exception: Monday.com GraphQL error: ", outcomes[i].message>>
            /\ Len(sleeps) = i - 1

\* the payload arrived on the third attempt, after two retried failures
C8_Witness ==
    /\ Len(outcomes) = 3
    /\ outcomes[3].kind = "graphql_error"
    /\ outcomes[3].message = "Field not found"
    /\ q_pc = "failed"

(***************************************************************************)
(* SpecRates: win rate and collection rate (agent/tools.py)                *)
(*                                                                         *)
(* A cleaned deal record is kept by its "Deal Status" and "Sector/service" *)
(* columns, a cleaned work order by its "Billed Value in Rupees (Excl of   *)
(* GST.) (Masked)", "Collected Amount in Rupees (Incl of GST.) (Masked)"   *)
(* and "Sector" columns; a column holding None or missing is None.         *)
(***************************************************************************)
DealStatuses == {Some("Won"), Some("Dead"), Some("Open"), Some("won"), None}
DealSectors == {Some("Mining"), None}

DealRecords == [deal_status : DealStatuses, sector : DealSectors]

\* a board of w won deals followed by d dead ones
BigBoard(w, d) ==
    [i \in 1..(w + d) |->
        [deal_status |-> IF i <= w THEN Some("Won") ELSE Some("Dead"),
         sector |-> Some("Mining")]]

DealBoards ==
    SeqsUpTo(DealRecords, MaxDeals)
    \cup {BigBoard(ManyWon, 1), BigBoard(ManyWon - 2, 1)}

Amounts == {None, Some(0), Some(1), Some(2)}
BilledAmounts == {None, Some(0), Some(3), Some(-3)}

WorkOrderRecords == [billed : BilledAmounts, collected : Amounts, sector : DealSectors]

WorkOrderBoards == SeqsUpTo(WorkOrderRecords, MaxWorkOrders)

\* Python round(num / den * 100, 1) for den > 0, in tenths of a percent:
\* the nearest tenth of 100 * num / den, an exact tie going to the even
\* tenth. (Python rounds the binary double; on the inputs drawn here the two
\* agree, they can differ only on exact ties.)
round_pct(num, den) ==
    LET q == (1000 * num) \div den
        r == (1000 * num) - q * den
    IN IF 2 * r < den THEN q
       ELSE IF 2 * r > den THEN q + 1
       ELSE IF q % 2 = 0 THEN q ELSE q + 1

\* `r.get(col) or "Unknown"`
GroupKey(opt) == IF opt = None \/ opt[1] = "" THEN "Unknown" ELSE opt[1]

\* status_breakdown[st] = status_breakdown.get(st, 0) + 1 for every record
status_breakdown(recs) ==
    [k \in {GroupKey(recs[i].deal_status) : i \in 1..Len(recs)} |->
        Cardinality({i \in 1..Len(recs) : GroupKey(recs[i].deal_status) = k})]

\* dict.get(key, 0)
GetCount(counts, k) == IF k \in DOMAIN counts THEN counts[k] ELSE 0

\* sum(1 for r in v if r.get("Deal Status") == name)
CountStatus(recs, name) ==
    Cardinality({i \in 1..Len(recs) : recs[i].deal_status = Some(name)})

\* a variant that reports 0 instead of None when nothing is decided
WinRate_ZeroWhenUndecided(won, decided) ==
    IF decided > 0 THEN Some(round_pct(won, decided)) ELSE Some(0)

\* round(won / decided * 100, 1) if decided > 0 else None
WinRate(won, decided) ==
    IF decided > 0 THEN Some(round_pct(won, decided)) ELSE None

\* _filter_records for the filters status and sector of query_deals_board;
\* a filter that is None (or empty) is not applied
filter_records(recs, status, sector) ==
    LET Keep(r) ==
            /\ (status = None \/ status[1] = "" \/ r.deal_status = status)
            /\ (sector = None \/ sector[1] = "" \/ r.sector = sector)
    IN SelectSeq(recs, Keep)

\* query_deals_board(status, sector): the win-rate fields of the result
query_deals_board(recs, status, sector) ==
    LET filtered == filter_records(recs, status, sector)
        breakdown == status_breakdown(filtered)
        won_count == GetCount(breakdown, "Won")
        dead_count == GetCount(breakdown, "Dead")
        decided == won_count + dead_count
    IN [tool |-> "query_deals_board", status |-> status, sector |-> sector,
        total_deals |-> Len(filtered),
        win_rate_pct |-> WinRate(won_count, decided),
        won_count |-> won_count, dead_count |-> dead_count]

\* the column a group_by name stands for: deals_group_map.get(group_by, group_by)
DealGroupValue(r, group_by) ==
    IF group_by = "sector" THEN r.sector ELSE r.deal_status

\* groups[key].append(r) with key = r.get(group_col) or "Unknown"
GroupOf(recs, group_by, k) ==
    LET In(r) == GroupKey(DealGroupValue(r, group_by)) = k
    IN SelectSeq(recs, In)

DealGroupKeys(recs, group_by) ==
    {GroupKey(DealGroupValue(recs[i], group_by)) : i \in 1..Len(recs)}

\* aggregate_metrics(board="deals", metric="win_rate", group_by)
aggregate_win_rate(recs, group_by) ==
    [tool |-> "aggregate_metrics", metric |-> "win_rate", group_by |-> group_by,
     results |->
        [k \in DealGroupKeys(recs, group_by) |->
            LET v == GroupOf(recs, group_by, k)
                won == CountStatus(v, "Won")
                dead == CountStatus(v, "Dead")
            IN [win_rate_pct |-> WinRate(won, won + dead),
                won |-> won, dead |-> dead, total_decided |-> won + dead]]]

\* get_data_summary(board="deals"): summary["deals"]
summary_deals(recs) ==
    LET status_counts == status_breakdown(recs)
        won == GetCount(status_counts, "Won")
        dead == GetCount(status_counts, "Dead")
    IN [tool |-> "get_data_summary", board |-> "deals",
        total_count |-> Len(recs),
        win_rate_pct |-> WinRate(won, won + dead),
        won_count |-> won, dead_count |-> dead]

\* sum(r.get(f) or 0 for r in v if r.get(f) is not None), f the billed value
RECURSIVE SumBilled(_)
SumBilled(recs) ==
    IF recs = <<>> THEN 0
    ELSE (IF Head(recs).billed # None THEN Head(recs).billed[1] ELSE 0)
         + SumBilled(Tail(recs))

\* the same sum over the collected amount
RECURSIVE SumCollected(_)
SumCollected(recs) ==
    IF recs = <<>> THEN 0
    ELSE (IF Head(recs).collected # None THEN Head(recs).collected[1] ELSE 0)
         + SumCollected(Tail(recs))

\* a variant that also wants something collected before it reports a rate
CollectionRate_NeedsCollected(collected, billed) ==
    IF billed > 0 /\ collected > 0 THEN Some(round_pct(collected, billed)) ELSE None

\* round(collected / billed * 100, 1) if billed > 0 else None
CollectionRate(collected, billed) ==
    IF billed > 0 THEN Some(round_pct(collected, billed)) ELSE None

WOGroupOf(recs, k) ==
    LET In(r) == GroupKey(r.sector) = k
    IN SelectSeq(recs, In)

\* aggregate_metrics(board="workorders", metric="collection_rate", group_by="sector")
aggregate_collection_rate(recs) ==
    [tool |-> "aggregate_metrics", metric |-> "collection_rate", group_by |-> "sector",
     results |->
        [k \in {GroupKey(recs[i].sector) : i \in 1..Len(recs)} |->
            LET v == WOGroupOf(recs, k)
            IN [collection_rate_pct |-> CollectionRate(SumCollected(v), SumBilled(v)),
                total_billed |-> SumBilled(v),
                total_collected |-> SumCollected(v),
                count |-> Len(v)]]]

\* get_data_summary(board="workorders"): summary["workorders"]["financials"]
summary_workorders(recs) ==
    [tool |-> "get_data_summary", board |-> "workorders",
     total_count |-> Len(recs),
     total_billed |-> SumBilled(recs),
     total_collected |-> SumCollected(recs),
     collection_rate_pct |-> CollectionRate(SumCollected(recs), SumBilled(recs))]

InitRates ==
    /\ r_pc = "ready"
    /\ \/ cleaned_deals \in DealBoards /\ cleaned_wos = <<>>
       \/ cleaned_deals = <<>> /\ cleaned_wos \in WorkOrderBoards
    /\ tool_result = <<"none">>
    /\ AgentIdle /\ QueryIdle /\ TruncIdle /\ StreamIdle /\ CleanerIdle
    /\ FetchIdle /\ PureIdle /\ OverlapIdle

Ran(result) ==
    /\ r_pc = "ready"
    /\ r_pc' = "done"
    /\ tool_result' = result
    /\ UNCHANGED <<cleaned_deals, cleaned_wos>>
    /\ UNCHANGED <<agent_vars, query_vars, trunc_vars, stream_vars, cleaner_vars,
                 fetch_vars, pure_vars, overlap_vars>>

StatusFilters == {None, Some("Won"), Some("Open")}
SectorFilters == {None, Some("Mining")}

QueryDealsBoard ==
    \E st \in StatusFilters, sec \in SectorFilters :
        Ran(query_deals_board(cleaned_deals, st, sec))

AggregateWinRate ==
    \E g \in {"sector", "status"} : Ran(aggregate_win_rate(cleaned_deals, g))

SummaryDeals == Ran(summary_deals(cleaned_deals))

AggregateCollectionRate == Ran(aggregate_collection_rate(cleaned_wos))

SummaryWorkOrders == Ran(summary_workorders(cleaned_wos))

NextRates ==
    \/ QueryDealsBoard
    \/ AggregateWinRate
    \/ SummaryDeals
    \/ AggregateCollectionRate
    \/ SummaryWorkOrders

SpecRates == InitRates /\ [][NextRates]_vars

(***************************************************************************)
(* Properties of the rates                                                 *)
(***************************************************************************)
RatesDone(tool) == r_pc = "done" /\ tool_result.tool = tool

\* the records a query_deals_board(status, sector) call is about
Selected(recs, status, sector) ==
    {i \in 1..Len(recs) :
        /\ status # None => recs[i].deal_status = status
        /\ sector # None => recs[i].sector = sector}

\* number of records among I whose status is exactly name
Exactly(recs, I, name) == Cardinality({i \in I : recs[i].deal_status = <<name>>})

KeyOfDeal(r, group_by) ==
    LET v == IF group_by = "sector" THEN r.sector ELSE r.deal_status
    IN IF v = <<>> THEN "Unknown" ELSE v[1]

InGroup(recs, group_by, k) == {i \in 1..Len(recs) : KeyOfDeal(recs[i], group_by) = k}

\* the win rate as documented: round(won / (won + dead) * 100, 1), null iff
\* nothing is decided
WinRateAsDocumented(rate, won, dead) ==
    /\ rate = (IF won + dead = 0 THEN <<>> ELSE <<round_pct(won, won + dead)>>)
    /\ (rate = <<>>) <=> (won + dead = 0)

\* holds of every place that reports a win rate, P(rate, won, dead) being
\* what is asked of the rate computed from the won and dead counts
WinRatePlaces(P(_, _, _)) ==
    /\ RatesDone("query_deals_board") =>
         LET I == Selected(cleaned_deals, tool_result.status, tool_result.sector)
             won == Exactly(cleaned_deals, I, "Won")
             dead == Exactly(cleaned_deals, I, "Dead")
         IN /\ tool_result.won_count = won
            /\ tool_result.dead_count = dead
            /\ P(tool_result.win_rate_pct, won, dead)
    /\ (RatesDone("aggregate_metrics") /\ tool_result.metric = "win_rate") =>
         /\ DOMAIN tool_result.results =
              {KeyOfDeal(cleaned_deals[i], tool_result.group_by) : i \in 1..Len(cleaned_deals)}
         /\ \A k \in DOMAIN tool_result.results :
              LET I == InGroup(cleaned_deals, tool_result.group_by, k)
                  won == Exactly(cleaned_deals, I, "Won")
                  dead == Exactly(cleaned_deals, I, "Dead")
              IN /\ tool_result.results[k].won = won
                 /\ tool_result.results[k].dead = dead
                 /\ P(tool_result.results[k].win_rate_pct, won, dead)
    /\ (RatesDone("get_data_summary") /\ tool_result.board = "deals") =>
         LET I == 1..Len(cleaned_deals)
             won == Exactly(cleaned_deals, I, "Won")
             dead == Exactly(cleaned_deals, I, "Dead")
         IN /\ tool_result.won_count = won
            /\ tool_result.dead_count = dead
            /\ P(tool_result.win_rate_pct, won, dead)

ClaimedWinRate(rate, won, dead) ==
    /\ WinRateAsDocumented(rate, won, dead)
    /\ rate = <<1000>> => (dead = 0 /\ won > 0)

AmendedWinRate(rate, won, dead) ==
    /\ WinRateAsDocumented(rate, won, dead)
    /\ rate = <<1000>> => (won > 0 /\ won >= 1999 * dead)
    /\ (dead = 0 /\ won > 0) => rate = <<1000>>

BilledOf(r) == IF r.billed = <<>> THEN 0 ELSE r.billed[1]
CollectedOf(r) == IF r.collected = <<>> THEN 0 ELSE r.collected[1]

\* null-safe total of F over the records with index in I
RECURSIVE TotalOver(_, _, _)
TotalOver(F(_), recs, I) ==
    IF I = {} THEN 0
    ELSE LET i == CHOOSE j \in I : TRUE
         IN F(recs[i]) + TotalOver(F, recs, I \ {i})

WOInGroup(recs, k) ==
    {i \in 1..Len(recs) : (IF recs[i].sector = <<>> THEN "Unknown" ELSE recs[i].sector[1]) = k}

\* holds of both places that report a collection rate, P(rate, collected,
\* billed) being what is asked of the rate computed from the two totals
CollectionRatePlaces(P(_, _, _)) ==
    /\ (RatesDone("aggregate_metrics") /\ tool_result.metric = "collection_rate") =>
         /\ DOMAIN tool_result.results =
              {(IF cleaned_wos[i].sector = <<>> THEN "Unknown" ELSE cleaned_wos[i].sector[1]) :
                  i \in 1..Len(cleaned_wos)}
         /\ \A k \in DOMAIN tool_result.results :
              P(tool_result.results[k].collection_rate_pct,
                TotalOver(CollectedOf, cleaned_wos, WOInGroup(cleaned_wos, k)),
                TotalOver(BilledOf, cleaned_wos, WOInGroup(cleaned_wos, k)))
    /\ (RatesDone("get_data_summary") /\ tool_result.board = "workorders") =>
         P(tool_result.collection_rate_pct,
           TotalOver(CollectedOf, cleaned_wos, 1..Len(cleaned_wos)),
           TotalOver(BilledOf, cleaned_wos, 1..Len(cleaned_wos)))

ClaimedCollectionRate(rate, collected, billed) ==
    /\ (rate = <<>>) <=> (billed = 0)
    /\ billed > 0 => rate = <<round_pct(collected, billed)>>

AmendedCollectionRate(rate, collected, billed) ==
    /\ (rate = <<>>) <=> (billed <= 0)
    /\ billed > 0 => rate = <<round_pct(collected, billed)>>

\* C10 as stated: collection_rate_pct is round(collected / billed * 100, 1)
\* over the null-safe totals and is null iff the billed total is 0.
C10_CollectionRateNullIffZero == CollectionRatePlaces(ClaimedCollectionRate)

\* C10 amended: it is null iff the billed total is not greater than 0 (zero
\* or negative), and round(collected / billed * 100, 1) otherwise.
C10_CollectionRateNullIffNotPositive == CollectionRatePlaces(AmendedCollectionRate)

\* a collection rate of 33.3 or 66.7 was reported from a record without a
\* billed value and one with it
C10_Witness ==
    /\ r_pc = "done"
    /\ tool_result.tool = "get_data_summary"
    /\ tool_result.board = "workorders"
    /\ tool_result.collection_rate_pct \in {<<333>>, <<667>>}
    /\ \E i \in 1..Len(cleaned_wos) : cleaned_wos[i].billed = <<>>

(***************************************************************************)
(* SpecJoin: cross_board_analysis (agent/tools.py:313-487)                 *)
(*                                                                         *)
(* A cleaned deal is kept by its "name", "Sector/service" and "Owner code" *)
(* columns; a cleaned work order by "Deal name masked", "Sector",          *)
(* "BD/KAM Personnel code" and the four amounts the lifecycle view sums.   *)
(***************************************************************************)
MaxJoinDeals == 2
MaxJoinWorkOrders == 2

JoinDeal(n, s, o) == [name |-> n, sector |-> Some(s), owner |-> Some(o)]

JoinDealRecords ==
    {JoinDeal(Some("Alpha"), "Mining", "OWNER_001"),
     JoinDeal(Some("Beta"), "Mining", "OWNER_001"),
     JoinDeal(Some("Beta"), "Railways", "OWNER_002"),
     JoinDeal(Some(""), "Mining", "OWNER_001"),
     JoinDeal(None, "Mining", "OWNER_001")}

JoinWorkOrder(n, s, o, a, b, c, r) ==
    [deal_name |-> n, sector |-> Some(s), owner |-> Some(o),
     amount |-> a, billed |-> b, collected |-> c, receivable |-> r]

JoinWorkOrderRecords ==
    {JoinWorkOrder(Some("Beta"), "Mining", "OWNER_001", Some(5), Some(3), Some(2), Some(1)),
     JoinWorkOrder(Some("Beta"), "Railways", "OWNER_002", Some(7), None, Some(0), Some(4)),
     JoinWorkOrder(Some("Alpha"), "Mining", "OWNER_001", None, None, None, None),
     JoinWorkOrder(Some("Gamma"), "Mining", "OWNER_001", Some(9), Some(8), Some(6), Some(2)),
     JoinWorkOrder(None, "Mining", "OWNER_001", Some(11), Some(11), Some(11), Some(11))}

JoinDealBoards == SeqsUpTo(JoinDealRecords, MaxJoinDeals)
JoinWorkOrderBoards == SeqsUpTo(JoinWorkOrderRecords, MaxJoinWorkOrders)

\* the sector, owner and deal_name arguments of a call
JoinFilters ==
    {[sector |-> None, owner |-> None, deal_name |-> None],
     [sector |-> Some("Mining"), owner |-> None, deal_name |-> None],
     [sector |-> None, owner |-> Some("OWNER_002"), deal_name |-> None],
     [sector |-> None, owner |-> None, deal_name |-> Some("Beta")],
     [sector |-> Some("Mining"), owner |-> None, deal_name |-> Some("Beta")]}

\* `if sector:` and the like: the argument is given and not empty
Given(arg) == arg # None /\ arg[1] # ""

\* the three `if ...: cleaned_deals = [d for d in cleaned_deals if ...]`
join_filter_deals(deals, f) ==
    LET Keep(d) ==
            /\ Given(f.sector) => d.sector = f.sector
            /\ Given(f.owner) => d.owner = f.owner
            /\ Given(f.deal_name) => d.name = f.deal_name
    IN SelectSeq(deals, Keep)

\* the same three filters on cleaned_wo
join_filter_wos(wos, f) ==
    LET Keep(w) ==
            /\ Given(f.sector) => w.sector = f.sector
            /\ Given(f.owner) => w.owner = f.owner
            /\ Given(f.deal_name) => w.deal_name = f.deal_name
    IN SelectSeq(wos, Keep)

\* {d.get("name") for d in cleaned_deals if d.get("name")}
deal_names_in_deals(deals) ==
    {deals[i].name[1] : i \in {j \in 1..Len(deals) : Given(deals[j].name)}}

\* {w.get("Deal name masked") for w in cleaned_wo if w.get("Deal name masked")}
wo_deal_names(wos) ==
    {wos[i].deal_name[1] : i \in {j \in 1..Len(wos) : Given(wos[j].deal_name)}}

\* deal = next((d for d in cleaned_deals if d.get("name") == name), None)
first_deal(deals, name) ==
    deals[CHOOSE i \in 1..Len(deals) :
            /\ deals[i].name = Some(name)
            /\ \A j \in 1..(i - 1) : deals[j].name # Some(name)]

\* a selection that takes every work order, whatever its deal name
wos_of_Any(wos, name) == wos

\* wos = [w for w in cleaned_wo if w.get("Deal name masked") == name]
wos_of(wos, name) ==
    LET Mine(w) == w.deal_name = Some(name) IN SelectSeq(wos, Mine)

\* sum(v or 0 for v in vals if v is not None)
RECURSIVE sum_present(_)
sum_present(vals) ==
    IF vals = <<>> THEN 0
    ELSE (IF Head(vals) # None THEN Head(vals)[1] ELSE 0) + sum_present(Tail(vals))

\* lifecycle.append({...}) for one common name
lifecycle_entry(deals, wos, name) ==
    LET deal == first_deal(deals, name)
        mine == wos_of(wos, name)
    IN [deal_name |-> name,
        sector |-> deal.sector,
        owner |-> deal.owner,
        work_order_count |-> Len(mine),
        wo_total_amount |-> sum_present([i \in 1..Len(mine) |-> mine[i].amount]),
        wo_total_billed |-> sum_present([i \in 1..Len(mine) |-> mine[i].billed]),
        wo_total_collected |-> sum_present([i \in 1..Len(mine) |-> mine[i].collected]),
        wo_total_receivable |-> sum_present([i \in 1..Len(mine) |-> mine[i].receivable])]

\* the orders `for name in common_names:` can visit the set in
set_orders(S) == {s \in [1..Cardinality(S) -> S] : Range(s) = S}

\* cross_board_analysis(sector, owner, deal_name) on the two cleaned boards:
\* the results it can return, one for each order of the set iteration
cross_board_analysis(all_deals, all_wos, f) ==
    LET deals == join_filter_deals(all_deals, f)
        wos == join_filter_wos(all_wos, f)
        dn == deal_names_in_deals(deals)
        wn == wo_deal_names(wos)
        common_names == dn \cap wn
    IN {[tool |-> "cross_board_analysis",
         filters_applied |-> f,
         common_deal_count |-> Cardinality(common_names),
         deals_only_count |-> Cardinality(dn \ wn),
         wo_only_count |-> Cardinality(wn \ dn),
         total_deals |-> Len(deals),
         total_work_orders |-> Len(wos),
         lifecycle |-> [i \in 1..Len(ord) |-> lifecycle_entry(deals, wos, ord[i])]] :
            ord \in set_orders(common_names)}

InitJoin ==
    /\ r_pc = "ready"
    /\ cleaned_deals \in JoinDealBoards
    /\ cleaned_wos \in JoinWorkOrderBoards
    /\ tool_result = <<"none">>
    /\ AgentIdle /\ QueryIdle /\ TruncIdle /\ StreamIdle /\ CleanerIdle
    /\ FetchIdle /\ PureIdle /\ OverlapIdle

CrossBoardAnalysis ==
    \E f \in JoinFilters :
        \E result \in cross_board_analysis(cleaned_deals, cleaned_wos, f) :
            Ran(result)

NextJoin == CrossBoardAnalysis

SpecJoin == InitJoin /\ [][NextJoin]_vars

(***************************************************************************)
(* Properties of the cross-board join                                      *)
(***************************************************************************)
\* indices of the deals a call with arguments f is about
DealsKept(f) ==
    {i \in 1..Len(cleaned_deals) :
        /\ f.sector # None => cleaned_deals[i].sector = f.sector
        /\ f.owner # None => cleaned_deals[i].owner = f.owner
        /\ f.deal_name # None => cleaned_deals[i].name = f.deal_name}

\* indices of the work orders a call with arguments f is about
WorkOrdersKept(f) ==
    {i \in 1..Len(cleaned_wos) :
        /\ f.sector # None => cleaned_wos[i].sector = f.sector
        /\ f.owner # None => cleaned_wos[i].owner = f.owner
        /\ f.deal_name # None => cleaned_wos[i].deal_name = f.deal_name}

NonEmptyName(opt) == opt \notin {<<>>, <<"">>}

DealNameSet(f) ==
    {cleaned_deals[i].name[1] : i \in {j \in DealsKept(f) : NonEmptyName(cleaned_deals[j].name)}}

WorkOrderNameSet(f) ==
    {cleaned_wos[i].deal_name[1] :
        i \in {j \in WorkOrdersKept(f) : NonEmptyName(cleaned_wos[j].deal_name)}}

WorkOrdersNamed(f, n) == {i \in WorkOrdersKept(f) : cleaned_wos[i].deal_name = <<n>>}

AmountOf(w) == IF w.amount = <<>> THEN 0 ELSE w.amount[1]
BilledValueOf(w) == IF w.billed = <<>> THEN 0 ELSE w.billed[1]
CollectedValueOf(w) == IF w.collected = <<>> THEN 0 ELSE w.collected[1]
ReceivableOf(w) == IF w.receivable = <<>> THEN 0 ELSE w.receivable[1]

JoinDone == r_pc = "done" /\ tool_result.tool = "cross_board_analysis"

\* C11: cross_board_analysis joins the filtered cleaned records of the two
\* boards on deal name: the three counts are the sizes of the intersection
\* and of the two differences of the sets of non-empty deal names, the
\* lifecycle list has exactly one entry per common name, and the
\* work_order_count and the four totals of an entry are taken over exactly
\* the filtered work orders whose deal name is the entry's name.
C11_JoinByDealName ==
    JoinDone =>
        LET f == tool_result.filters_applied
            dn == DealNameSet(f)
            wn == WorkOrderNameSet(f)
            lc == tool_result.lifecycle
        IN /\ tool_result.common_deal_count = Cardinality(dn \cap wn)
           /\ tool_result.deals_only_count = Cardinality(dn \ wn)
           /\ tool_result.wo_only_count = Cardinality(wn \ dn)
           /\ Len(lc) = Cardinality(dn \cap wn)
           /\ \A n \in dn \cap wn :
                Cardinality({i \in 1..Len(lc) : lc[i].deal_name = n}) = 1
           /\ \A i \in 1..Len(lc) :
                LET mine == WorkOrdersNamed(f, lc[i].deal_name)
                IN /\ lc[i].deal_name \in dn \cap wn
                   /\ lc[i].work_order_count = Cardinality(mine)
                   /\ lc[i].wo_total_amount = TotalOver(AmountOf, cleaned_wos, mine)
                   /\ lc[i].wo_total_billed = TotalOver(BilledValueOf, cleaned_wos, mine)
                   /\ lc[i].wo_total_collected = TotalOver(CollectedValueOf, cleaned_wos, mine)
                   /\ lc[i].wo_total_receivable = TotalOver(ReceivableOf, cleaned_wos, mine)

\* deals {Alpha, Beta} joined with work orders {Beta, Gamma}: one common
\* deal, one on each side only, and Beta's entry sums Beta's work order alone
C11_Witness ==
    /\ JoinDone
    /\ tool_result.filters_applied.sector = <<>>
    /\ tool_result.filters_applied.deal_name = <<>>
    /\ tool_result.filters_applied.owner = <<>>
    /\ Len(cleaned_wos) = 2
    /\ tool_result.common_deal_count = 1
    /\ tool_result.deals_only_count = 1
    /\ tool_result.wo_only_count = 1
    /\ tool_result.lifecycle[1].deal_name = "Beta"
    /\ tool_result.lifecycle[1].work_order_count = 1
    /\ tool_result.lifecycle[1].wo_total_amount = 5

(***************************************************************************)
(* SpecTruncate: one iteration of tool_execution_node whose tool returned  *)
(* a dict (agent/graph.py:70-111), on results with short and long lists    *)
(***************************************************************************)
MaxListLen == 52

ListLens == {0, 1, max_items - 1, max_items, max_items + 1, MaxListLen}

\* the items of a list of n records, told apart by their position
ItemList(n) == [i \in 1..n |-> i]

CaveatLists == {<<>>, <<"cv_value">>, <<"cv_value", "cv_close_date">>}

CleaningStepLists == {<<>>, <<"Removed 1 duplicate header row(s) from data">>}

\* the result of query_deals_board: total_deals = len(filtered), one entry
\* of "deals" per filtered record
DealsResult(n, cav, steps) ==
    [total_deals |-> Some(n), total_work_orders |-> None,
     common_deal_count |-> None, caveats |-> cav, cleaning_steps |-> steps,
     deals |-> Some(ItemList(n)), work_orders |-> None, lifecycle |-> None]

\* the result of query_workorders_board
WorkOrdersResult(n, cav, steps) ==
    [total_deals |-> None, total_work_orders |-> Some(n),
     common_deal_count |-> None, caveats |-> cav, cleaning_steps |-> steps,
     deals |-> None, work_orders |-> Some(ItemList(n)), lifecycle |-> None]

\* the result of cross_board_analysis
LifecycleResult(n, cav, steps) ==
    [total_deals |-> None, total_work_orders |-> None,
     common_deal_count |-> Some(n), caveats |-> cav, cleaning_steps |-> steps,
     deals |-> None, work_orders |-> None, lifecycle |-> Some(ItemList(n))]

\* the result of aggregate_metrics and get_data_summary: no item list
AggregateResult(cav, steps) ==
    [total_deals |-> None, total_work_orders |-> None,
     common_deal_count |-> None, caveats |-> cav, cleaning_steps |-> steps,
     deals |-> None, work_orders |-> None, lifecycle |-> None]

LargeResults ==
    UNION {{DealsResult(n, cav, steps), WorkOrdersResult(n, cav, steps),
            LifecycleResult(n, cav, steps), AggregateResult(cav, steps)} :
                n \in ListLens, cav \in CaveatLists, steps \in CleaningStepLists}

\* the tool whose result has the shape of r
ToolOf(r) ==
    IF r.deals # None THEN "query_deals_board"
    ELSE IF r.work_orders # None THEN "query_workorders_board"
    ELSE IF r.lifecycle # None THEN "cross_board_analysis"
    ELSE "aggregate_metrics"

InitTruncate ==
    /\ t_pc = "ready"
    /\ raw_result \in LargeResults
    /\ step_result = <<>>
    /\ AgentIdle /\ QueryIdle /\ RatesIdle /\ StreamIdle /\ CleanerIdle
    /\ FetchIdle /\ PureIdle /\ OverlapIdle

\* result = await tool_fn.ainvoke(tool_args) returned raw_result: the trace
\* is completed, the caveats are taken and the truncated result becomes the
\* tool message
ToolCallSucceeds ==
    /\ t_pc = "ready"
    /\ t_pc' = "done"
    /\ step_result' =
          SuccessBranch([name |-> ToolOf(raw_result), args |-> "{}", id |-> 1],
                        raw_result)
    /\ UNCHANGED raw_result
    /\ UNCHANGED <<agent_vars, query_vars, rates_vars, stream_vars, cleaner_vars,
                 fetch_vars, pure_vars, overlap_vars>>

NextTruncate == ToolCallSucceeds

SpecTruncate == InitTruncate /\ [][NextTruncate]_vars

(***************************************************************************)
(* Properties of the truncation                                            *)
(***************************************************************************)
TruncateDone == t_pc = "done"

\* what the reasoning capability is handed: the payload of the tool message
HandedBack == step_result.message[1].payload.result[1]

\* one item-list key: `before` in the tool's result, `after`, `flag` and
\* `total` in what is handed back
CutAtFifty(before, after, flag, total) ==
    IF before # <<>> /\ Len(before[1]) > 50
    THEN /\ after = <<[i \in 1..50 |-> before[1][i]]>>
         /\ flag = <<TRUE>>
         /\ total = <<Len(before[1])>>
    ELSE /\ after = before
         /\ flag = <<>>
         /\ total = <<>>

\* C12: before a tool result is handed back to the reasoning capability,
\* each list under deals, work_orders and lifecycle with more than 50
\* entries is replaced by its first 50 entries in the original order, with
\* <key>_truncated = true and <key>_total = the original length; a list of
\* 50 or fewer entries is unchanged and gets no flag and no total.
C12_ListsCutAtFifty ==
    TruncateDone =>
        /\ CutAtFifty(raw_result.deals, HandedBack.deals,
                      HandedBack.deals_truncated, HandedBack.deals_total)
        /\ CutAtFifty(raw_result.work_orders, HandedBack.work_orders,
                      HandedBack.work_orders_truncated, HandedBack.work_orders_total)
        /\ CutAtFifty(raw_result.lifecycle, HandedBack.lifecycle,
                      HandedBack.lifecycle_truncated, HandedBack.lifecycle_total)

\* a list of 51 deals was cut to 50 and flagged
C12_Witness ==
    /\ TruncateDone
    /\ raw_result.deals # <<>>
    /\ Len(raw_result.deals[1]) = 51
    /\ Len(HandedBack.deals[1]) = 50
    /\ HandedBack.deals_truncated = <<TRUE>>
    /\ HandedBack.deals_total = <<51>>

\* the count a trace reports: the first of total_deals, total_work_orders
\* and common_deal_count that is present and not 0, else 0
CountOf(r) ==
    IF r.total_deals \notin {<<>>, <<0>>} THEN r.total_deals[1]
    ELSE IF r.total_work_orders \notin {<<>>, <<0>>} THEN r.total_work_orders[1]
    ELSE IF r.common_deal_count \notin {<<>>, <<0>>} THEN r.common_deal_count[1]
    ELSE 0

\* C13: truncation leaves every key other than deals, work_orders and
\* lifecycle with the value it had, and the trace's items-returned count
\* and the caveats added to the turn come from the untruncated result.
C13_OnlyListsTruncated ==
    TruncateDone =>
        /\ HandedBack.total_deals = raw_result.total_deals
        /\ HandedBack.total_work_orders = raw_result.total_work_orders
        /\ HandedBack.common_deal_count = raw_result.common_deal_count
        /\ HandedBack.caveats = raw_result.caveats
        /\ HandedBack.cleaning_steps = raw_result.cleaning_steps
        /\ step_result.trace.items_returned = <<CountOf(raw_result)>>
        /\ step_result.trace.cleaning_steps = <<raw_result.cleaning_steps>>
        /\ step_result.caveats = raw_result.caveats

\* 51 work orders were cut to 50 while the count, the caveats and the trace
\* still speak of 51
C13_Witness ==
    /\ TruncateDone
    /\ raw_result.total_work_orders = <<51>>
    /\ Len(HandedBack.work_orders[1]) = 50
    /\ HandedBack.total_work_orders = <<51>>
    /\ step_result.trace.items_returned = <<51>>
    /\ step_result.caveats = <<"cv_value", "cv_close_date">>

(***************************************************************************)
(* SpecSession: turns of chat() and chat_stream.event_generator on one     *)
(* conversation, one turn after the other (main.py:56-198)                 *)
(***************************************************************************)
MaxTurns == 2
MaxSessionRounds == 1
MaxSessionCalls == 1

\* a stored history of nine earlier exchanges
LongHistory ==
    [k \in 1..18 |->
        IF k % 2 = 1 THEN HumanMessage("q" \o ToString(k))
        ELSE AIMessage("a" \o ToString(k), <<>>)]

\* the text the reasoning capability may send along with ToolCalls
ToolCallTexts == {"", "thinking "}

\* the answers it may stream: a text, or nothing at all
StreamAnswers == {"answer_a", ""}

ReasoningError == "reasoning failed"

\* the chunks llm_with_tools streams for `resp`: its text if it has any,
\* then one chunk per ToolCall
Chunks(resp) ==
    (IF resp.content # "" THEN <<[content |-> resp.content, tool_calls |-> <<>>]>>
     ELSE <<>>)
    \o [i \in 1..Len(resp.tool_calls) |->
            [content |-> "", tool_calls |-> <<resp.tool_calls[i]>>]]

\* event_generator, on_chat_model_stream: a chunk with content and without
\* tool_calls is added to accumulated_response and yielded as a token
RECURSIVE on_chat_model_stream(_, _)
on_chat_model_stream(st, chunks) ==
    IF chunks = <<>> THEN st
    ELSE LET chunk == Head(chunks)
         IN on_chat_model_stream(
                IF chunk.content # "" /\ chunk.tool_calls = <<>>
                THEN [acc |-> st.acc \o chunk.content,
                      events |-> Append(st.events, TokenEvent(chunk.content))]
                ELSE st,
                Tail(chunks))

\* event_generator after the event loop:
\* if accumulated_response: conversations[conv_id] = (messages + [AIMessage(...)])[-20:]
store_streamed(convs, conv, input, acc) ==
    IF acc # ""
    THEN [convs EXCEPT ![conv] = LastN(input \o <<AIMessage(acc, <<>>)>>, 20)]
    ELSE convs

\* a handler that keeps what was streamed before the failure
on_stream_error_KeepsPartial(convs, conv, input, acc) ==
    [convs EXCEPT ![conv] = LastN(input \o <<AIMessage(acc, <<>>)>>, 20)]

\* event_generator, `except Exception as e:` yields the error event and
\* assigns nothing: the conversations map after it
on_stream_error(convs, conv, input, acc) == convs

\* a stream that closes every run with done, a failed one too
error_events_ThenDone(evts, e) == evts \o <<ErrorEvent(e), DoneEvent>>

\* event_generator, `except Exception as e:` the events after it
error_events(evts, e) == Append(evts, ErrorEvent(e))

InitSession ==
    /\ pc \in {"chat_start", "stream_start"}
    /\ conversations \in [ConvIds -> {<<>>, LongHistory}]
    /\ chat_messages = <<>> /\ messages = <<>> /\ tool_traces = <<>>
    /\ data_caveats = <<>> /\ llm_input = <<>> /\ loop_i = 0
    /\ new_messages = <<>> /\ new_traces = <<>> /\ new_caveats = <<>>
    /\ invoked = <<>> /\ rounds = 0 /\ next_id = 1
    /\ response = NoResponse
    /\ events = <<>> /\ accumulated_response = "" /\ turns = 1
    /\ QueryIdle /\ RatesIdle /\ TruncIdle /\ CleanerIdle
    /\ FetchIdle /\ PureIdle /\ OverlapIdle

\* chat(): the reasoning capability asks for tools, within the session bounds
SessionCallsTools ==
    /\ pc = "reasoning"
    /\ rounds < MaxSessionRounds
    /\ \E n \in 1..MaxSessionCalls : \E tcs \in ToolCallSeqs(next_id, n) :
         ReasoningReturns(AIMessage("", tcs))

\* chat(): the request's task is cancelled while it awaits graph.ainvoke;
\* CancelledError is not an Exception, so nothing after the await runs
ChatCancelled ==
    /\ pc \in {"reasoning", "tools"}
    /\ pc' = "cancelled"
    /\ UNCHANGED <<conversations, chat_messages, messages, tool_traces,
                   data_caveats, llm_input, loop_i, new_messages, new_traces,
                   new_caveats, invoked, rounds, next_id, response>>
    /\ UNCHANGED <<query_vars, rates_vars, trunc_vars, stream_vars, cleaner_vars,
                 fetch_vars, pure_vars, overlap_vars>>

\* event_generator: read the history, build the input, yield the session
\* event and start graph.astream_events
StreamStart ==
    /\ pc = "stream_start"
    /\ \E conv \in ConvIds, q \in UserMessages :
         /\ chat_messages' = conversations[conv] \o <<HumanMessage(q)>>
         /\ messages' = conversations[conv] \o <<HumanMessage(q)>>
         /\ events' = <<SessionEvent(conv)>>
    /\ accumulated_response' = ""
    /\ tool_traces' = <<>>
    /\ data_caveats' = <<>>
    /\ pc' = "stream_reasoning"
    /\ UNCHANGED <<conversations, llm_input, loop_i, new_messages, new_traces,
                   new_caveats, invoked, rounds, next_id, response, turns>>
    /\ UNCHANGED <<query_vars, rates_vars, trunc_vars, cleaner_vars,
                 fetch_vars, pure_vars, overlap_vars>>

\* reasoning_node under astream_events returns `resp`, its chunks having
\* been streamed; should_continue routes to the tools node or to END, and
\* at END event_generator stores the history and yields done
StreamReasoningReturns(resp) ==
    LET msgs == messages \o <<resp>>
        st == on_chat_model_stream([acc |-> accumulated_response, events |-> events],
                                   Chunks(resp))
    IN /\ llm_input' = WithSystemPrompt(messages)
       /\ messages' = msgs
       /\ next_id' = next_id + Len(resp.tool_calls)
       /\ rounds' = IF resp.tool_calls # <<>> THEN rounds + 1 ELSE rounds
       /\ accumulated_response' = st.acc
       /\ IF should_continue(msgs) = "tools"
          THEN /\ pc' = "stream_tools"
               /\ loop_i' = 1
               /\ new_messages' = <<>>
               /\ new_traces' = <<>>
               /\ new_caveats' = <<>>
               /\ events' = st.events
               /\ UNCHANGED conversations
          ELSE /\ pc' = "stream_done"
               /\ conversations' = store_streamed(conversations, "c1", chat_messages, st.acc)
               /\ events' = Append(st.events, DoneEvent)
               /\ UNCHANGED <<loop_i, new_messages, new_traces, new_caveats>>
       /\ UNCHANGED <<chat_messages, tool_traces, data_caveats, invoked, response, turns>>
       /\ UNCHANGED <<query_vars, rates_vars, trunc_vars, cleaner_vars,
                 fetch_vars, pure_vars, overlap_vars>>

\* the reasoning capability streams an answer without ToolCalls
StreamAnswersText ==
    /\ pc = "stream_reasoning"
    /\ \E a \in StreamAnswers : StreamReasoningReturns(AIMessage(a, <<>>))

\* the reasoning capability streams ToolCalls, with or without text
StreamCallsTools ==
    /\ pc = "stream_reasoning"
    /\ rounds < MaxSessionRounds
    /\ \E n \in 1..MaxSessionCalls : \E tcs \in ToolCallSeqs(next_id, n) :
         \E text \in ToolCallTexts : StreamReasoningReturns(AIMessage(text, tcs))

\* llm_with_tools.ainvoke raises: astream_events raises into event_generator,
\* which yields the error event
StreamRaises ==
    /\ pc = "stream_reasoning"
    /\ llm_input' = WithSystemPrompt(messages)
    /\ pc' = "stream_error"
    /\ events' = error_events(events, ReasoningError)
    /\ conversations' = on_stream_error(conversations, "c1", chat_messages,
                                        accumulated_response)
    /\ UNCHANGED <<chat_messages, messages, tool_traces, data_caveats, loop_i,
                   new_messages, new_traces, new_caveats, invoked, rounds,
                   next_id, response, accumulated_response, turns>>
    /\ UNCHANGED <<query_vars, rates_vars, trunc_vars, cleaner_vars,
                 fetch_vars, pure_vars, overlap_vars>>

\* tool_execution_node inside graph.astream_events (chat_stream)
StreamToolExecution ==
    /\ pc = "stream_tools"
    /\ ToolLoop("stream_reasoning", TRUE, FrozenClock)
    /\ UNCHANGED <<conversations, chat_messages, llm_input, rounds, next_id, response>>
    /\ UNCHANGED <<accumulated_response, turns>>
    /\ UNCHANGED <<query_vars, rates_vars, trunc_vars, cleaner_vars,
                 fetch_vars, pure_vars, overlap_vars>>

\* the client goes away and the generator is closed at the yield or await
\* it is suspended in: no statement after it runs
StreamCancelled ==
    /\ pc \in {"stream_reasoning", "stream_tools"}
    /\ pc' = "stream_cancelled"
    /\ UNCHANGED <<conversations, chat_messages, messages, tool_traces,
                   data_caveats, llm_input, loop_i, new_messages, new_traces,
                   new_caveats, invoked, rounds, next_id, response>>
    /\ UNCHANGED <<query_vars, rates_vars, trunc_vars, stream_vars, cleaner_vars,
                 fetch_vars, pure_vars, overlap_vars>>

TurnOver ==
    pc \in {"responded", "http500", "cancelled",
            "stream_done", "stream_error", "stream_cancelled"}

\* the next request on the conversation arrives, at either endpoint; the
\* locals of the turn before are gone, the conversations map stays
NextTurn ==
    /\ TurnOver
    /\ turns < MaxTurns
    /\ turns' = turns + 1
    /\ pc' \in {"chat_start", "stream_start"}
    /\ chat_messages' = <<>> /\ messages' = <<>> /\ tool_traces' = <<>>
    /\ data_caveats' = <<>> /\ llm_input' = <<>> /\ loop_i' = 0
    /\ new_messages' = <<>> /\ new_traces' = <<>> /\ new_caveats' = <<>>
    /\ invoked' = <<>> /\ rounds' = 0 /\ next_id' = 1
    /\ response' = NoResponse
    /\ events' = <<>> /\ accumulated_response' = ""
    /\ UNCHANGED conversations
    /\ UNCHANGED <<query_vars, rates_vars, trunc_vars, cleaner_vars,
                 fetch_vars, pure_vars, overlap_vars>>

NextSession ==
    \/ ChatStart
    \/ ReasoningAnswers
    \/ SessionCallsTools
    \/ ReasoningRaises
    \/ ToolExecution
    \/ ChatCancelled
    \/ StreamStart
    \/ StreamAnswersText
    \/ StreamCallsTools
    \/ StreamRaises
    \/ StreamToolExecution
    \/ StreamCancelled
    \/ NextTurn

SpecSession == InitSession /\ [][NextSession]_vars

(***************************************************************************)
(* Properties of the session store and of the event stream                 *)
(***************************************************************************)
\* the history the running turn read when it started
HistoryRead == SubSeq(chat_messages, 1, Len(chat_messages) - 1)

TurnCompleted == pc \in {"responded", "stream_done"}

TurnRunning ==
    pc \in {"reasoning", "tools", "stream_reasoning", "stream_tools"}

TurnFailed == pc \in {"http500", "cancelled", "stream_error", "stream_cancelled"}

\* the most recent 20 entries of s
MostRecentTwenty(s) ==
    IF Len(s) <= 20 THEN s ELSE [i \in 1..20 |-> s[Len(s) - 20 + i]]

\* C14: the history stored for a conversation never has more than 20
\* messages, and after a completed turn, on the chat or the streaming
\* endpoint, it is the most recent 20 entries of the history read at the
\* start of the turn, then the user message, then the final answer.
C14_HistoryIsMostRecentTwenty ==
    /\ \A c \in ConvIds : Len(conversations[c]) <= 20
    /\ TurnCompleted =>
         conversations["c1"] =
            MostRecentTwenty(chat_messages \o <<AIMessage(Last(messages).content, <<>>)>>)

\* C15: the Session Store entry is written at most once per turn, as a full
\* replacement when the turn completes: while the turn is in Reasoning or
\* ToolExecution, and after it failed or was cancelled, the entry is the
\* history the turn read at its start, and the only step that changes the
\* entry is the one that completes the turn.
C15_StoreWrittenOnceAtCompletion ==
    /\ []((TurnRunning \/ TurnFailed) => conversations["c1"] = HistoryRead)
    /\ [][conversations' # conversations =>
             /\ pc \in {"reasoning", "stream_reasoning"}
             /\ pc' \in {"responded", "stream_done"}
             /\ Last(conversations'["c1"]).type = "ai"
             /\ conversations'["c1"] =
                   MostRecentTwenty(chat_messages \o <<Last(conversations'["c1"])>>)]_vars
    /\ [][TurnOver => conversations' = conversations]_vars

\* a streaming turn ran a tool, streamed text and then failed: the entry is
\* still the history of nine exchanges it started from
C15_Witness ==
    /\ pc = "stream_error"
    /\ rounds > 0
    /\ accumulated_response # ""
    /\ Len(HistoryRead) = 18
    /\ conversations["c1"] = HistoryRead

\* the caveats returned by the successful tool calls of the running turn
TurnCaveats ==
    UNION {Range(messages[j].payload.result[1].caveats) :
             j \in {k \in (Len(chat_messages) + 1)..Len(messages) :
                      IsToolMsg(messages[k]) /\ messages[k].payload.kind = "result"}}

\* every string the caller of a completed turn was handed
Delivered ==
    IF pc = "responded" THEN Range(response.caveats) \cup {response.response}
    ELSE {events[i].text : i \in 1..Len(events)} \cup {events[i].tool : i \in 1..Len(events)}

\* C17: for every completed turn, on the chat endpoint and on the streaming
\* endpoint, every caveat a successful tool call returned during the turn
\* is in what is delivered to the caller as the final response.
C17_CaveatsDelivered == TurnCompleted => TurnCaveats \subseteq Delivered

\* C19: on the streaming endpoint every ToolCall executed in the turn has
\* exactly one tool_start event followed by exactly one tool_end event, a
\* ToolCall whose tool raises and one that names an unknown tool included.
C19_StartAndEndPerToolCall ==
    pc = "stream_done" =>
        \A c \in 1..Len(IssuedCalls(messages)) :
            LET id == IssuedCalls(messages)[c].id
                starts == {i \in 1..Len(events) :
                             events[i].type = "tool_start" /\ events[i].run_id = id}
                ends == {i \in 1..Len(events) :
                           events[i].type = "tool_end" /\ events[i].run_id = id}
            IN /\ Cardinality(starts) = 1
               /\ Cardinality(ends) = 1
               /\ \A i \in starts, j \in ends : i < j

IsTerminalEvent(e) == e.type \in {"done", "error"}

TerminalEvents == {i \in 1..Len(events) : IsTerminalEvent(events[i])}

StreamEnded == pc \in {"stream_done", "stream_error"}

\* C20: an event stream that runs to its end starts with the session event
\* and ends with exactly one terminal event, done or error, never both and
\* never neither, so that no tool_start, tool_end or token event follows
\* it; a stream that has not ended has yielded no terminal event.
C20_SessionFirstOneTerminalLast ==
    /\ StreamEnded =>
         /\ events[1].type = "session"
         /\ TerminalEvents = {Len(events)}
         /\ Len(events) > 1
    /\ pc \in {"stream_reasoning", "stream_tools", "stream_cancelled"} =>
         /\ events[1].type = "session"
         /\ TerminalEvents = {}

\* a stream that reported a tool run and a token and then ended on error
C20_Witness ==
    /\ pc = "stream_error"
    /\ Last(events).type = "error"
    /\ \E i, j \in 2..(Len(events) - 1) :
         events[i].type = "tool_end" /\ events[j].type = "token"

(***************************************************************************)
(* SpecCaveats: one chat() turn whose tools return different caveat lists  *)
(***************************************************************************)
MaxCaveatRounds == 2
MaxCaveatCalls == 1

\* tools whose results carry <<"cv_value">> and <<"cv_value", "cv_wo">>
CaveatToolNames == {"query_deals_board", "cross_board_analysis"}

CaveatToolCalls(first, n) ==
    {[k \in 1..n |-> [name |-> names[k], args |-> "{}", id |-> first + k - 1]] :
        names \in [1..n -> CaveatToolNames]}

\* the reasoning capability asks for one of the caveat-bearing tools
ReasoningCallsCaveatTools ==
    /\ pc = "reasoning"
    /\ rounds < MaxCaveatRounds
    /\ \E n \in 1..MaxCaveatCalls : \E tcs \in CaveatToolCalls(next_id, n) :
         ReasoningReturns(AIMessage("", tcs))

NextCaveats ==
    \/ ChatStart
    \/ ReasoningAnswers
    \/ ReasoningCallsCaveatTools
    \/ ToolExecution

SpecCaveats == Init /\ [][NextCaveats]_vars

(***************************************************************************)
(* Properties of the accumulated caveats                                   *)
(***************************************************************************)
NoDuplicates(s) == \A a, b \in 1..Len(s) : a # b => s[a] # s[b]

\* C18: after any sequence of ToolExecution steps within a turn the
\* accumulated caveat list holds no string more than once and holds every
\* caveat returned by a successful tool call of the turn so far; the same
\* is true of the caveats chat() returns.
C18_CaveatsDeduplicatedAndKept ==
    /\ NoDuplicates(data_caveats)
    /\ pc \in {"reasoning", "tools", "responded"} =>
         TurnCaveats \subseteq Range(data_caveats)
    /\ pc = "responded" =>
         /\ NoDuplicates(response.caveats)
         /\ TurnCaveats \subseteq Range(response.caveats)

\* two steps ran, both tools returned "cv_value" and one also "cv_wo": the
\* list holds each once
C18_Witness ==
    /\ pc = "reasoning"
    /\ rounds = 2
    /\ tool_traces[1].status = "completed"
    /\ tool_traces[1].tool_name = "cross_board_analysis"
    /\ tool_traces[2].status = "completed"
    /\ tool_traces[2].tool_name = "query_deals_board"
    /\ Len(data_caveats) = 2
    /\ TurnCaveats = {"cv_value", "cv_wo"}

(***************************************************************************)
(* SpecCleaner: tool invocations of several requests on one event loop,    *)
(* all using the data_cleaner singleton (data_cleaner.py:19-24, 291-297;   *)
(* agent/tools.py). An invocation runs until it awaits get_board_items and *)
(* is resumed when the items arrive; between two awaits nothing else runs. *)
(***************************************************************************)
MaxInvocations == 2
MaxDirtyRows == 1

CleanerTools ==
    {"query_deals_board", "query_workorders_board", "cross_board_analysis",
     "aggregate_metrics"}

\* f"Removed {n} duplicate header row(s) from data"
RemovedHeaderRows(n) == [step |-> "Removed duplicate header row(s)", n |-> n]

\* f"Fixed {n} typo(s): 'BIlled' -> 'Billed'"
FixedTypos(n) == [step |-> "Fixed typo(s)", n |-> n]

\* a clean_deals that goes on with the log it finds
clean_deals_NoReset(log, header_rows) ==
    IF header_rows > 0 THEN Append(log, RemovedHeaderRows(header_rows)) ELSE log

\* DataCleaner.clean_deals: self.cleaning_log after the call on records
\* holding `header_rows` duplicate header rows, `log` being the log before
clean_deals(log, header_rows) ==
    IF header_rows > 0 THEN Append(<<>>, RemovedHeaderRows(header_rows)) ELSE <<>>

\* DataCleaner.clean_workorders: self.cleaning_log after the call on records
\* holding `typos` "BIlled" values
clean_workorders(log, typos) ==
    IF typos > 0 THEN Append(<<>>, FixedTypos(typos)) ELSE <<>>

\* DataCleaner.get_cleaning_log: a copy of the log
get_cleaning_log(log) == log

\* an invocation that has not been made yet
NotInvoked ==
    [tool |-> "", at |-> "not_invoked", cleaned |-> <<>>, cleaning_steps |-> <<>>]

\* the await an invocation of `tool` stops at first
FirstAwait(tool) ==
    IF tool = "query_deals_board" THEN "await_deals"
    ELSE IF tool = "query_workorders_board" THEN "await_workorders"
    ELSE IF tool = "cross_board_analysis" THEN "await_gather"
    ELSE "await_deals"

InitCleaner ==
    /\ cleaning_log = <<>>
    /\ invocations = [i \in 1..MaxInvocations |-> NotInvoked]
    /\ AgentIdle /\ QueryIdle /\ RatesIdle /\ TruncIdle /\ StreamIdle
    /\ FetchIdle /\ PureIdle /\ OverlapIdle

CleanerFrame ==
    UNCHANGED <<agent_vars, query_vars, rates_vars, trunc_vars, stream_vars,
                fetch_vars, pure_vars, overlap_vars>>

\* a tool is invoked and runs up to its first `await get_board_items`
Invoke(i) ==
    /\ invocations[i].at = "not_invoked"
    /\ \E tool \in CleanerTools :
         invocations' = [invocations EXCEPT
                            ![i] = [NotInvoked EXCEPT !.tool = tool,
                                                      !.at = FirstAwait(tool)]]
    /\ UNCHANGED cleaning_log
    /\ CleanerFrame

\* query_deals_board is resumed with the deals board: clean_deals, then
\* get_cleaning_log, then the result is built and returned
DealsQueryResumes(i) ==
    /\ invocations[i].tool = "query_deals_board"
    /\ invocations[i].at = "await_deals"
    /\ \E h \in 0..MaxDirtyRows :
         LET log == clean_deals(cleaning_log, h)
         IN /\ cleaning_log' = log
            /\ invocations' = [invocations EXCEPT
                  ![i].at = "returned",
                  ![i].cleaned = <<[board |-> "deals", dirty |-> h]>>,
                  ![i].cleaning_steps = get_cleaning_log(log)]
    /\ CleanerFrame

\* query_workorders_board is resumed with the work orders board
WorkOrdersQueryResumes(i) ==
    /\ invocations[i].tool = "query_workorders_board"
    /\ invocations[i].at = "await_workorders"
    /\ \E t \in 0..MaxDirtyRows :
         LET log == clean_workorders(cleaning_log, t)
         IN /\ cleaning_log' = log
            /\ invocations' = [invocations EXCEPT
                  ![i].at = "returned",
                  ![i].cleaned = <<[board |-> "workorders", dirty |-> t]>>,
                  ![i].cleaning_steps = get_cleaning_log(log)]
    /\ CleanerFrame

\* cross_board_analysis is resumed when asyncio.gather has both boards:
\* clean_deals, get_cleaning_log, clean_workorders, get_cleaning_log, and
\* cleaning_steps = deals_log + wo_log
CrossBoardResumes(i) ==
    /\ invocations[i].tool = "cross_board_analysis"
    /\ invocations[i].at = "await_gather"
    /\ \E h \in 0..MaxDirtyRows, t \in 0..MaxDirtyRows :
         LET log1 == clean_deals(cleaning_log, h)
             deals_log == get_cleaning_log(log1)
             log2 == clean_workorders(log1, t)
             wo_log == get_cleaning_log(log2)
         IN /\ cleaning_log' = log2
            /\ invocations' = [invocations EXCEPT
                  ![i].at = "returned",
                  ![i].cleaned = <<[board |-> "deals", dirty |-> h],
                                   [board |-> "workorders", dirty |-> t]>>,
                  ![i].cleaning_steps = deals_log \o wo_log]
    /\ CleanerFrame

\* aggregate_metrics(board="both") is resumed with the deals board: it
\* cleans, extends its cleaning_steps and awaits the work orders board
AggregateDealsResumes(i) ==
    /\ invocations[i].tool = "aggregate_metrics"
    /\ invocations[i].at = "await_deals"
    /\ \E h \in 0..MaxDirtyRows :
         LET log == clean_deals(cleaning_log, h)
         IN /\ cleaning_log' = log
            /\ invocations' = [invocations EXCEPT
                  ![i].at = "await_workorders",
                  ![i].cleaned = <<[board |-> "deals", dirty |-> h]>>,
                  ![i].cleaning_steps = invocations[i].cleaning_steps
                                            \o get_cleaning_log(log)]
    /\ CleanerFrame

\* aggregate_metrics(board="both") is resumed with the work orders board
AggregateWorkOrdersResumes(i) ==
    /\ invocations[i].tool = "aggregate_metrics"
    /\ invocations[i].at = "await_workorders"
    /\ \E t \in 0..MaxDirtyRows :
         LET log == clean_workorders(cleaning_log, t)
         IN /\ cleaning_log' = log
            /\ invocations' = [invocations EXCEPT
                  ![i].at = "returned",
                  ![i].cleaned = Append(invocations[i].cleaned,
                                        [board |-> "workorders", dirty |-> t]),
                  ![i].cleaning_steps = invocations[i].cleaning_steps
                                            \o get_cleaning_log(log)]
    /\ CleanerFrame

NextCleaner ==
    \E i \in 1..MaxInvocations :
        \/ Invoke(i)
        \/ DealsQueryResumes(i)
        \/ WorkOrdersQueryResumes(i)
        \/ CrossBoardResumes(i)
        \/ AggregateDealsResumes(i)
        \/ AggregateWorkOrdersResumes(i)

SpecCleaner == InitCleaner /\ [][NextCleaner]_vars

(***************************************************************************)
(* Properties of the cleaning log                                          *)
(***************************************************************************)
\* the steps one cleaning call logs for the board it cleaned
StepsLoggedFor(c) ==
    IF c.dirty = 0 THEN <<>>
    ELSE IF c.board = "deals"
         THEN <<[step |-> "Removed duplicate header row(s)", n |-> c.dirty]>>
         ELSE <<[step |-> "Fixed typo(s)", n |-> c.dirty]>>

\* the steps of the cleaning calls an invocation has made, in call order
RECURSIVE OwnSteps(_)
OwnSteps(cleaned) ==
    IF cleaned = <<>> THEN <<>>
    ELSE StepsLoggedFor(Head(cleaned)) \o OwnSteps(Tail(cleaned))

\* C16: with several tool invocations interleaving at their network
\* suspension points on the shared cleaner, the cleaning_steps an
\* invocation holds and returns are exactly the steps logged by its own
\* cleaning calls: none of another invocation's, none of its own missing.
C16_OwnCleaningStepsOnly ==
    \A i \in 1..MaxInvocations :
        invocations[i].cleaning_steps = OwnSteps(invocations[i].cleaned)

\* an aggregate_metrics invocation that removed a header row is suspended
\* at its second await while the shared log holds the typo fix of another
\* invocation that ran to its end in between
C16_Witness ==
    \E i, j \in 1..MaxInvocations :
        /\ invocations[i].tool = "aggregate_metrics"
        /\ invocations[i].at = "await_workorders"
        /\ invocations[i].cleaning_steps =
              <<[step |-> "Removed duplicate header row(s)", n |-> 1]>>
        /\ invocations[j].tool = "query_workorders_board"
        /\ invocations[j].at = "returned"
        /\ invocations[j].cleaning_steps = <<[step |-> "Fixed typo(s)", n |-> 1]>>
        /\ cleaning_log = invocations[j].cleaning_steps

(***************************************************************************)
(* Backoff of execute_query (monday_client.py:57-66)                       *)
(***************************************************************************)
\* a request timeout or a 5xx response
TransientFailure(o) ==
    o.kind = "timeout" \/ (o.kind = "http_error" /\ o.status >= 500)

\* a 4xx response other than 429
ClientError(o) == o.kind = "http_error" /\ o.status >= 400 /\ o.status < 500

\* how many of the first i answers were timeouts or 5xx responses
TransientUpTo(i) ==
    Cardinality({j \in 1..i : TransientFailure(outcomes[j])})

TimeoutError == <<"Exception", "Monday.com API timeout after 3 retries">>

\* the part of the claim that does not depend on how retries are numbered:
\* at most 2 retries, a timeout on the last attempt fails the call as a
\* timeout error, a 5xx on the last attempt fails it with its status, and a
\* 4xx other than 429 ends the call where it occurs, with no sleep after it
RetryBudgetAndClientErrors ==
    /\ requests <= 3
    /\ Len(sleeps) <= 3
    /\ \A i \in 1..Len(outcomes) :
         /\ (TransientFailure(outcomes[i]) /\ i = 3) =>
               /\ q_pc = "failed"
               /\ Len(sleeps) = 2
               /\ outcomes[i].kind = "timeout" => q_result = TimeoutError
               /\ outcomes[i].kind = "http_error" =>
                     q_result = <<"Exception: Monday.com API error: ",
                                  ToString(outcomes[i].status)>>
         /\ (TransientFailure(outcomes[i]) /\ i < 3) => Len(sleeps) >= i
         /\ ClientError(outcomes[i]) =>
               /\ i = Len(outcomes)
               /\ q_pc = "failed"
               /\ Len(sleeps) = i - 1
               /\ q_result = <<"Exception: Monday.com API error: ",
                               ToString(outcomes[i].status)>>

\* C21 as stated: a timeout or a 5xx response is retried after 1s the first
\* time and after 2s the second time, at most twice, whatever else the call
\* was answered with (rate-limit responses before the timeouts included);
\* a 4xx response other than 429 fails the call at once without a sleep.
C21_BackoffOneThenTwo ==
    /\ RetryBudgetAndClientErrors
    /\ \A i \in 1..Len(outcomes) :
         (TransientFailure(outcomes[i]) /\ i <= Len(sleeps)) =>
             sleeps[i] = (IF TransientUpTo(i) = 1 THEN 1 ELSE 2)

\* C21 amended: the backoff is counted over all requests of the call: a
\* timeout or 5xx answer to the first request is retried after 1s, to the
\* second request after 2s, and on the third request it fails the call (as
\* a timeout error when it was a timeout); so after one rate-limit response
\* the first timeout is already retried after 2s and only once, and after
\* two rate-limit responses it is not retried at all. A 4xx response other
\* than 429 fails the call at once without a sleep.
C21_BackoffByRequestNumber ==
    /\ RetryBudgetAndClientErrors
    /\ \A i \in 1..Len(outcomes) :
         TransientFailure(outcomes[i]) =>
            /\ i < 3 => (i <= Len(sleeps) /\ sleeps[i] = (IF i = 1 THEN 1 ELSE 2))
            /\ i = 3 => (i > Len(sleeps) /\ q_pc = "failed")

\* a rate-limit response came first, the timeout that followed was retried
\* after 2s, and the second timeout failed the call as a timeout error
C21_Witness ==
    /\ Len(outcomes) = 3
    /\ NumericRateLimit(outcomes[1])
    /\ outcomes[2].kind = "timeout"
    /\ outcomes[3].kind = "timeout"
    /\ sleeps = <<7, 2>>
    /\ q_pc = "failed"
    /\ q_result = TimeoutError

(***************************************************************************)
(* SpecFetch: MondayClient.get_board_items (monday_client.py:70-134)       *)
(***************************************************************************)
MaxPages == 3
MaxPageItems == 1

ItemIds == {"i1", "i2"}

\* items_page.get("cursor"): absent or null, empty, or an opaque cursor
Cursors == {None, Some(""), Some("cA"), Some("cB")}

Page(items, c) == [kind |-> "page", items |-> items, cursor |-> c]
QueryRaises == [kind |-> "raises", items |-> <<>>, cursor |-> None]
NoBoard == [kind |-> "no_board", items |-> <<>>, cursor |-> None]

\* what `await self.execute_query(...)` gives for one page: a page of items
\* with its cursor, or the exception execute_query raises
PageAnswers ==
    {Page(its, c) : its \in SeqsUpTo(ItemIds, MaxPageItems), c \in Cursors}
    \cup {QueryRaises}

\* the first query can also return no board: result["data"]["boards"][0]
\* raises IndexError
FirstPageAnswers == PageAnswers \cup {NoBoard}

\* a loop that goes on for any cursor that is not None
while_cursor_NotNone(c) == c # None

\* `while cursor:`
while_cursor(c) == c # None /\ c[1] # ""

\* all_items.extend(items_page["items"])
extend(items, page_items) == items \o page_items

\* the exception that leaves get_board_items
FetchError(answer) ==
    IF answer.kind = "no_board" THEN <<"exception", "IndexError">>
    ELSE <<"exception", "Monday.com API">>

InitFetch ==
    /\ f_pc = "first_page" /\ cursor = None /\ all_items = <<>>
    /\ page_requests = <<>> /\ fetch_result = <<"none">>
    /\ AgentIdle /\ QueryIdle /\ RatesIdle /\ TruncIdle /\ StreamIdle /\ CleanerIdle
    /\ PureIdle /\ OverlapIdle

\* one execute_query call with cursor argument `arg`, answered by `answer`,
\* up to the next call, the return or the exception
PageRequest(arg, answer) ==
    /\ page_requests' = Append(page_requests, [cursor |-> arg, answer |-> answer])
    /\ IF answer.kind = "page"
       THEN /\ all_items' = extend(all_items, answer.items)
            /\ cursor' = answer.cursor
            /\ IF while_cursor(answer.cursor)
               THEN f_pc' = "paging" /\ UNCHANGED fetch_result
               ELSE /\ f_pc' = "returned"
                    /\ fetch_result' = <<"items", extend(all_items, answer.items)>>
       ELSE /\ f_pc' = "failed"
            /\ fetch_result' = FetchError(answer)
            /\ UNCHANGED <<all_items, cursor>>
    /\ UNCHANGED <<agent_vars, query_vars, rates_vars, trunc_vars, stream_vars,
                   cleaner_vars, pure_vars, overlap_vars>>

\* result = await self.execute_query(query)   (the boards(...) query)
FirstPage ==
    /\ f_pc = "first_page"
    /\ \E answer \in FirstPageAnswers : PageRequest(None, answer)

\* result = await self.execute_query(next_query)   (next_items_page(cursor))
NextPage ==
    /\ f_pc = "paging"
    /\ Len(page_requests) < MaxPages
    /\ \E answer \in PageAnswers : PageRequest(cursor, answer)

NextFetch == FirstPage \/ NextPage

SpecFetch == InitFetch /\ [][NextFetch]_vars

(***************************************************************************)
(* Properties of get_board_items                                           *)
(***************************************************************************)
NonEmptyCursor(c) == c \notin {<<>>, <<"">>}

\* the items of the first n answered requests, in request order
RECURSIVE ItemsOfPages(_)
ItemsOfPages(n) ==
    IF n = 0 THEN <<>> ELSE ItemsOfPages(n - 1) \o page_requests[n].answer.items

\* C22: the first request carries no cursor, every later request carries
\* the cursor the page before it returned, and a further request is made
\* exactly when the last page returned a non-empty cursor; the fetch returns
\* the items of all pages concatenated in request order; a failed page
\* request ends the fetch with an exception and no item list.
C22_PaginationFollowsCursor ==
    LET n == Len(page_requests) IN
    /\ n >= 1 => page_requests[1].cursor = <<>>
    /\ \A i \in 2..n :
         /\ page_requests[i - 1].answer.kind = "page"
         /\ NonEmptyCursor(page_requests[i - 1].answer.cursor)
         /\ page_requests[i].cursor = page_requests[i - 1].answer.cursor
    /\ f_pc = "paging" =>
         /\ page_requests[n].answer.kind = "page"
         /\ NonEmptyCursor(page_requests[n].answer.cursor)
         /\ fetch_result = <<"none">>
    /\ f_pc = "returned" =>
         /\ page_requests[n].answer.kind = "page"
         /\ ~NonEmptyCursor(page_requests[n].answer.cursor)
         /\ fetch_result = <<"items", ItemsOfPages(n)>>
    /\ f_pc = "failed" =>
         /\ page_requests[n].answer.kind # "page"
         /\ fetch_result[1] = "exception"
    /\ \A i \in 1..n :
         page_requests[i].answer.kind # "page" => (i = n /\ f_pc = "failed")

\* three pages were fetched, the third one returned an empty cursor
C22_Witness ==
    /\ Len(page_requests) = 3
    /\ f_pc = "returned"
    /\ page_requests[2].cursor = <<"cA">>
    /\ page_requests[3].cursor = <<"cB">>
    /\ page_requests[3].answer.cursor = <<"">>
    /\ fetch_result = <<"items", <<"i1", "i2", "i1">>>>

(***************************************************************************)
(* SpecTraces: one chat() turn with the wall clock read around each tool   *)
(* (agent/graph.py:56-133)                                                 *)
(***************************************************************************)
MaxTraceRounds == 2
MaxTraceCalls == 1

\* the reasoning capability asks for 1..MaxTraceCalls tool invocations
ReasoningCallsTimedTools ==
    /\ pc = "reasoning"
    /\ rounds < MaxTraceRounds
    /\ \E n \in 1..MaxTraceCalls : \E tcs \in ToolCallSeqs(next_id, n) :
         ReasoningReturns(AIMessage("", tcs))

\* tool_execution_node inside graph.ainvoke (chat)
TimedToolExecution ==
    /\ pc = "tools"
    /\ ToolLoop("reasoning", FALSE, WallClock)
    /\ UNCHANGED <<conversations, chat_messages, llm_input, rounds, next_id, response>>
    /\ UNCHANGED <<accumulated_response, turns>>
    /\ UNCHANGED <<query_vars, rates_vars, trunc_vars, cleaner_vars,
                   fetch_vars, pure_vars, overlap_vars>>

NextTraces ==
    \/ ChatStart
    \/ ReasoningAnswers
    \/ ReasoningCallsTimedTools
    \/ ReasoningRaises
    \/ TimedToolExecution

SpecTraces == Init /\ [][NextTraces]_vars

(***************************************************************************)
(* Properties of the trace entries                                         *)
(***************************************************************************)
\* the entries recorded so far in the turn: those of finished ToolExecution
\* steps followed by those of the step under way
TracesSoFar == tool_traces \o new_traces

\* every entry is final (completed or error, with a duration) and the
\* entries are those of the calls issued so far, in issue order
TracesFinalAndInOrder ==
    /\ \A i \in 1..Len(TracesSoFar) :
         /\ TracesSoFar[i].status \in {"completed", "error"}
         /\ "duration_ms" \in DOMAIN TracesSoFar[i]
         /\ TracesSoFar[i].tool_name = IssuedCalls(messages)[i].name
    /\ pc = "reasoning" => Len(tool_traces) = Len(IssuedCalls(messages))

\* tool_traces only grows at its end: a ToolExecution step keeps the
\* entries of the earlier steps as they were
TracesAppendOnly ==
    [][/\ Len(tool_traces') >= Len(tool_traces)
       /\ SubSeq(tool_traces', 1, Len(tool_traces)) = tool_traces]_vars

\* C23: every trace entry of a turn has status completed or error, never
\* running, and a duration_ms >= 0, on failure as on success; the entries
\* are in invocation order.
C23_TracesFinalWithDuration ==
    /\ TracesFinalAndInOrder
    /\ \A i \in 1..Len(TracesSoFar) : TracesSoFar[i].duration_ms >= 0

(***************************************************************************)
(* Field values of a record and the string functions used on them.  A      *)
(* string is the sequence of its characters.                               *)
(***************************************************************************)
\* a value a record can hold: None, a str, an int, or the float that
\* _parse_number returned (finite, infinite or not-a-number)
NoneV == [t |-> "none", s |-> <<>>, n |-> 0]
Str(chars) == [t |-> "str", s |-> chars, n |-> 0]
IntV(n) == [t |-> "int", s |-> <<>>, n |-> n]
FloatV(kind, literal) == [t |-> kind, s |-> literal, n |-> 0]

\* `if val:`
truthy(v) ==
    /\ v.t # "none"
    /\ v.t = "str" => v.s # <<>>
    /\ v.t = "int" => v.n # 0

\* isinstance(val, str)
is_str(v) == v.t = "str"

Digits == {"0", "1", "2", "3", "4", "5", "6", "7", "8", "9"}
Whitespace == {" ", "\t"}
Punctuation == {"-", "/", ":", ".", ",", "+", "_", "(", ")"}

\* c.isalpha(), for the characters the inputs are written with
is_alpha(c) == c \notin Digits \cup Whitespace \cup Punctuation

DigitValue(c) ==
    CASE c = "0" -> 0 [] c = "1" -> 1 [] c = "2" -> 2 [] c = "3" -> 3 [] c = "4" -> 4
      [] c = "5" -> 5 [] c = "6" -> 6 [] c = "7" -> 7 [] c = "8" -> 8 [] c = "9" -> 9

DigitChar(n) ==
    CASE n = 0 -> "0" [] n = 1 -> "1" [] n = 2 -> "2" [] n = 3 -> "3" [] n = 4 -> "4"
      [] n = 5 -> "5" [] n = 6 -> "6" [] n = 7 -> "7" [] n = 8 -> "8" [] n = 9 -> "9"

\* str.lower() on the letters of the spellings float() knows
Lower(c) ==
    CASE c = "I" -> "i" [] c = "N" -> "n" [] c = "F" -> "f" [] c = "T" -> "t"
      [] c = "Y" -> "y" [] c = "A" -> "a" [] c = "E" -> "e" [] OTHER -> c

LowerAll(chars) == [i \in 1..Len(chars) |-> Lower(chars[i])]

\* str.strip(): drop the leading and the trailing whitespace
RECURSIVE lstrip(_)
lstrip(chars) ==
    IF chars # <<>> /\ chars[1] \in Whitespace THEN lstrip(Tail(chars)) ELSE chars

RECURSIVE rstrip(_)
rstrip(chars) ==
    IF chars # <<>> /\ chars[Len(chars)] \in Whitespace
    THEN rstrip(SubSeq(chars, 1, Len(chars) - 1)) ELSE chars

strip(chars) == rstrip(lstrip(chars))

\* str.replace(",", "")
NotComma(c) == c # ","
remove_commas(chars) == SelectSeq(chars, NotComma)

\* the length of the run of digits chars starts with
RECURSIVE DigitRun(_)
DigitRun(chars) ==
    IF chars # <<>> /\ chars[1] \in Digits THEN 1 + DigitRun(Tail(chars)) ELSE 0

Drop(chars, n) == SubSeq(chars, n + 1, Len(chars))

\* the number a run of digits spells
RECURSIVE NumberOf(_)
NumberOf(digits) ==
    IF digits = <<>> THEN 0
    ELSE 10 * NumberOf(SubSeq(digits, 1, Len(digits) - 1)) + DigitValue(digits[Len(digits)])

UnSign(chars) == IF chars # <<>> /\ chars[1] \in {"+", "-"} THEN Tail(chars) ELSE chars

\* float(text): Python's float literal grammar, after its own strip():
\* [sign] inf | infinity | nan (any case), or [sign] digits [. digits]
\* [e [sign] digits] with at least one digit in the mantissa; anything else
\* raises ValueError.  A literal beyond the double range becomes inf.
\* (Underscores between digits are left out of the inputs.)
float_of(text) ==
    LET body == UnSign(strip(text))
        word == LowerAll(body)
        int_n == DigitRun(body)
        after_int == Drop(body, int_n)
        has_point == after_int # <<>> /\ after_int[1] = "."
        frac == IF has_point THEN Tail(after_int) ELSE after_int
        frac_n == IF has_point THEN DigitRun(frac) ELSE 0
        after_frac == Drop(frac, frac_n)
        has_exp == after_frac # <<>> /\ after_frac[1] \in {"e", "E"}
        exp_body == IF has_exp THEN UnSign(Tail(after_frac)) ELSE <<>>
        exp_n == DigitRun(exp_body)
        exp_negative == has_exp /\ Len(after_frac) > 1 /\ after_frac[2] = "-"
        exp_value == IF exp_n > 10 THEN 1000000 ELSE NumberOf(SubSeq(exp_body, 1, exp_n))
        well_formed ==
            /\ int_n + frac_n >= 1
            /\ IF has_exp THEN exp_n >= 1 /\ exp_n = Len(exp_body)
               ELSE after_frac = <<>>
        mantissa_zero ==
            \A i \in 1..(int_n + frac_n) :
                (IF i <= int_n THEN body[i] ELSE frac[i - int_n]) = "0"
    IN IF word \in {<<"i", "n", "f">>, <<"i", "n", "f", "i", "n", "i", "t", "y">>}
       THEN FloatV("float_inf", strip(text))
       ELSE IF word = <<"n", "a", "n">> THEN FloatV("float_nan", strip(text))
       ELSE IF ~well_formed THEN [t |-> "ValueError", s |-> text, n |-> 0]
       ELSE IF ~mantissa_zero /\ ~exp_negative /\ exp_value + int_n > 400
            THEN FloatV("float_inf", strip(text))
       ELSE FloatV("float", strip(text))

\* str(value) for the values a record holds
str_of(v) ==
    IF v.t = "str" THEN v.s
    ELSE IF v.t = "none" THEN <<"N", "o", "n", "e">>
    ELSE IF v.n = 0 THEN <<"0">>
    ELSE <<DigitChar(v.n)>>

\* DataCleaner._parse_number
parse_number(value) ==
    IF value.t = "none" THEN NoneV
    ELSE LET r == float_of(strip(remove_commas(str_of(value))))
         IN IF r.t = "ValueError" THEN NoneV ELSE r
(***************************************************************************)
(* DataCleaner._parse_date (data_cleaner.py:159-183) and the part of       *)
(* datetime.strptime / strftime it uses                                    *)
(***************************************************************************)
\* the formats tried, in order; a directive is written as its letter with
\* a leading %, anything else is a literal character
formats ==
    << <<"%Y", "-", "%m", "-", "%d">>,
       <<"%Y", "-", "%m", "-", "%d", "T", "%H", ":", "%M", ":", "%S">>,
       <<"%Y", "-", "%m", "-", "%d", "T", "%H", ":", "%M", ":", "%S", ".", "%f">>,
       <<"%Y", "-", "%m", "-", "%d", " ", "%H", ":", "%M", ":", "%S">>,
       <<"%d", "-", "%m", "-", "%Y">>,
       <<"%d", "/", "%m", "/", "%Y">>,
       <<"%m", "/", "%d", "/", "%Y">> >>

Directives == {"%Y", "%m", "%d", "%H", "%M", "%S", "%f"}

NoFields == [d \in Directives |-> 0]

\* how many digits a directive takes from the front of chars (0: no match);
\* strptime's patterns: %Y is \d\d\d\d, %m is 1[0-2]|0[1-9]|[1-9], %d is
\* 3[01]|[12]\d|0[1-9]|[1-9], %H is 2[0-3]|[0-1]\d|\d, %M is [0-5]\d|\d,
\* %S is 6[01]|[0-5]\d|\d, %f is [0-9]{1,6}
Takes(dir, chars) ==
    LET run == DigitRun(chars)
        two == IF run >= 2 THEN NumberOf(SubSeq(chars, 1, 2)) ELSE -1
        one == IF run >= 1 THEN DigitValue(chars[1]) ELSE -1
    IN CASE dir = "%Y" -> IF run >= 4 THEN 4 ELSE 0
         [] dir = "%m" -> IF two \in 1..12 THEN 2 ELSE IF one \in 1..9 THEN 1 ELSE 0
         [] dir = "%d" -> IF two \in 1..31 THEN 2 ELSE IF one \in 1..9 THEN 1 ELSE 0
         [] dir = "%H" -> IF two \in 0..23 THEN 2 ELSE IF one >= 0 THEN 1 ELSE 0
         [] dir = "%M" -> IF two \in 0..59 THEN 2 ELSE IF one >= 0 THEN 1 ELSE 0
         [] dir = "%S" -> IF two \in 0..61 THEN 2 ELSE IF one >= 0 THEN 1 ELSE 0
         [] dir = "%f" -> IF run > 6 THEN 6 ELSE run

\* a literal of the format against the front of chars: whitespace in the
\* format stands for \s+, letters are matched without regard to case
LiteralTakes(lit, chars) ==
    IF lit = " " THEN Len(chars) - Len(lstrip(chars))
    ELSE IF chars # <<>> /\ (chars[1] = lit \/ (lit = "T" /\ chars[1] = "t")) THEN 1
    ELSE 0

\* match chars against the format from element k on; the fields found so
\* far are in `found`; <<>> when the string does not match (ValueError)
RECURSIVE MatchFrom(_, _, _, _)
MatchFrom(chars, fmt, k, found) ==
    IF k > Len(fmt) THEN (IF chars = <<>> THEN <<found>> ELSE <<>>)
    ELSE LET n == IF fmt[k] \in Directives THEN Takes(fmt[k], chars)
                  ELSE LiteralTakes(fmt[k], chars)
         IN IF n = 0 THEN <<>>
            ELSE MatchFrom(Drop(chars, n), fmt, k + 1,
                           IF fmt[k] \in Directives
                           THEN [found EXCEPT ![fmt[k]] = NumberOf(SubSeq(chars, 1, n))]
                           ELSE found)

IsLeap(y) == (y % 4 = 0 /\ y % 100 # 0) \/ y % 400 = 0

DaysIn(y, m) ==
    IF m = 2 THEN (IF IsLeap(y) THEN 29 ELSE 28)
    ELSE IF m \in {4, 6, 9, 11} THEN 30 ELSE 31

\* datetime.strptime(text, fmt): the fields, or <<>> for ValueError (no
\* match, or a match that is not a date and time of the calendar)
strptime(text, fmt) ==
    LET m == MatchFrom(text, fmt, 1, NoFields)
    IN IF m = <<>> THEN <<>>
       ELSE IF /\ m[1]["%Y"] >= 1
               /\ m[1]["%d"] <= DaysIn(m[1]["%Y"], m[1]["%m"])
               /\ m[1]["%S"] <= 59
            THEN m ELSE <<>>

Pad2(n) == <<DigitChar(n \div 10), DigitChar(n % 10)>>

\* dt.strftime("%Y-%m-%d"), for years of four digits
strftime_date(dt) ==
    Pad2(dt["%Y"] \div 100) \o Pad2(dt["%Y"] % 100) \o <<"-">>
        \o Pad2(dt["%m"]) \o <<"-">> \o Pad2(dt["%d"])

\* the loop over formats of _parse_date, from format k on
RECURSIVE try_formats(_, _)
try_formats(text, k) ==
    IF k > Len(formats) THEN NoneV
    ELSE LET dt == strptime(text, formats[k])
         IN IF dt # <<>> THEN Str(strftime_date(dt[1])) ELSE try_formats(text, k + 1)

any_alpha(chars) == \E i \in 1..Len(chars) : is_alpha(chars[i])

\* value.startswith("20")
startswith_20(chars) == Len(chars) >= 2 /\ chars[1] = "2" /\ chars[2] = "0"

\* DataCleaner._parse_date
parse_date(value) ==
    IF ~truthy(value) \/ ~is_str(value) THEN NoneV
    ELSE IF any_alpha(value.s) /\ ~startswith_20(value.s) THEN NoneV
    ELSE try_formats(strip(value.s), 1)
(***************************************************************************)
(* DataCleaner: clean_deals and clean_workorders on whole records          *)
(* (data_cleaner.py:22-289)                                                *)
(***************************************************************************)
DealFields ==
    {"Deal Status", "Deal Stage", "Sector/service", "Owner code", "Masked Deal value",
     "Close Date (A)", "Tentative Close Date", "Created Date", "Closure Probability"}

\* checks = [("Deal Status", "Deal Status"), ...]: the fields of
\* _is_header_row
checks == {"Deal Status", "Deal Stage", "Sector/service", "Owner code"}

\* the characters of a column name
expected_header(field) ==
    CASE field = "Deal Status" -> <<"D", "e", "a", "l", " ", "S", "t", "a", "t", "u", "s">>
      [] field = "Deal Stage" -> <<"D", "e", "a", "l", " ", "S", "t", "a", "g", "e">>
      [] field = "Sector/service" -> <<"S", "e", "c", "t", "o", "r", "/", "s", "e", "r", "v", "i", "c", "e">>
      [] field = "Owner code" -> <<"O", "w", "n", "e", "r", " ", "c", "o", "d", "e">>

\* a header test that is satisfied by a single match
is_header_row_OneMatch(record) ==
    Cardinality({f \in checks :
        truthy(record[f]) /\ strip(str_of(record[f])) = expected_header(f)}) >= 1

\* DataCleaner._is_header_row
is_header_row(record) ==
    Cardinality({f \in checks :
        truthy(record[f]) /\ strip(str_of(record[f])) = expected_header(f)}) >= 2

NotHeaderRow(record) == ~is_header_row(record)

date_fields == {"Close Date (A)", "Tentative Close Date", "Created Date"}

stripped_deal_fields == {"Sector/service", "Deal Stage", "Deal Status", "Owner code"}

\* the body of the loop of clean_deals for a record that is kept
clean_deal_record(record) ==
    [f \in DealFields |->
        LET val == record[f] IN
        IF f = "Masked Deal value"
        THEN (IF truthy(val) THEN parse_number(val) ELSE val)
        ELSE IF f \in date_fields
        THEN (IF truthy(val) /\ is_str(val) THEN parse_date(val) ELSE val)
        ELSE IF f \in stripped_deal_fields
        THEN (IF truthy(val) /\ is_str(val) THEN Str(strip(val.s)) ELSE val)
        ELSE val]

Count(records, Lacks(_)) == Cardinality({i \in 1..Len(records) : Lacks(records[i])})

\* a caveat: what it is about and the counts its text is formatted from
Caveat(about, missing, total) ==
    [about |-> about, missing |-> missing, total |-> total,
     pct |-> IF total = 0 THEN 0 ELSE round_pct(missing, total)]

\* a threshold that is reached by the exact fraction
exceeds_OrEquals(missing, total, tenths) == 10 * missing >= tenths * total

\* `null_x > total * 0.5`, `null_x > total * 0.1`: the float product is the
\* exact fraction for every board size up to 100000
exceeds(missing, total, tenths) == 10 * missing > tenths * total

LacksDealValue(r) == r["Masked Deal value"].t = "none"
LacksCloseDate(r) == ~truthy(r["Close Date (A)"])
LacksProbability(r) == ~truthy(r["Closure Probability"])
LacksTentativeDate(r) == ~truthy(r["Tentative Close Date"])

\* DataCleaner._generate_deals_caveats
generate_deals_caveats(records) ==
    IF records = <<>> THEN <<Caveat("no deal records", 0, 0)>>
    ELSE LET total == Len(records)
             null_values == Count(records, LacksDealValue)
             null_close == Count(records, LacksCloseDate)
             null_prob == Count(records, LacksProbability)
             null_tentative == Count(records, LacksTentativeDate)
         IN (IF null_values > 0
             THEN <<Caveat("deal value", null_values, total)>> ELSE <<>>)
            \o (IF exceeds(null_close, total, 5)
                THEN <<Caveat("close date", null_close, total)>> ELSE <<>>)
            \o (IF exceeds(null_prob, total, 5)
                THEN <<Caveat("closure probability", null_prob, total)>> ELSE <<>>)
            \o (IF exceeds(null_tentative, total, 1)
                THEN <<Caveat("tentative close date", null_tentative, total)>> ELSE <<>>)

\* DataCleaner.clean_deals followed by get_cleaning_log()
DataCleaner_clean_deals(records) ==
    LET kept == SelectSeq(records, NotHeaderRow)
        cleaned == [i \in 1..Len(kept) |-> clean_deal_record(kept[i])]
        header_rows_removed == Len(records) - Len(kept)
    IN [cleaned |-> cleaned,
        caveats |-> generate_deals_caveats(cleaned),
        cleaning_log |-> IF header_rows_removed > 0
                         THEN <<RemovedHeaderRows(header_rows_removed)>> ELSE <<>>]

qty_fields == {"Quantities as per PO", "Quantity by Ops", "Balance in quantity"}

financial_fields ==
    {"Amount in Rupees (Excl of GST) (Masked)",
     "Amount in Rupees (Incl of GST) (Masked)",
     "Billed Value in Rupees (Excl of GST.) (Masked)",
     "Billed Value in Rupees (Incl of GST.) (Masked)",
     "Collected Amount in Rupees (Incl of GST.) (Masked)",
     "Amount to be billed in Rupees (Excl of GST.) (Masked)",
     "Amount to be billed in Rupees (Incl of GST.) (Masked)",
     "Amount Receivable (Masked)"}

WorkOrderFields ==
    {"Billing Status", "Execution Status", "Sector"} \cup qty_fields \cup financial_fields

DigitOrPoint(c) == c \in Digits \cup {"."}

\* DataCleaner._parse_quantity: re.sub(r"[^\d.]", "", str(value)), then float
parse_quantity(value) ==
    IF ~truthy(value) THEN NoneV
    ELSE LET numeric == SelectSeq(str_of(value), DigitOrPoint)
             r == float_of(numeric)
         IN IF numeric = <<>> \/ r.t = "ValueError" THEN NoneV ELSE r

BIlled == <<"B", "I", "l", "l", "e", "d">>
Billed == <<"B", "i", "l", "l", "e", "d">>

\* the body of the loop of clean_workorders
clean_workorder_record(record) ==
    [f \in WorkOrderFields |->
        LET val == record[f] IN
        IF f = "Billing Status"
        THEN (IF truthy(val) /\ val = Str(BIlled) THEN Str(Billed) ELSE val)
        ELSE IF f \in qty_fields
        THEN (IF truthy(val) /\ is_str(val) THEN parse_quantity(val) ELSE val)
        ELSE IF f \in financial_fields
        THEN (IF truthy(val) THEN parse_number(val) ELSE val)
        ELSE (IF truthy(val) /\ is_str(val) THEN Str(strip(val.s)) ELSE val)]

HasTypo(r) == truthy(r["Billing Status"]) /\ r["Billing Status"] = Str(BIlled)
LacksCollected(r) == r["Collected Amount in Rupees (Incl of GST.) (Masked)"].t = "none"
LacksBilled(r) == r["Billed Value in Rupees (Excl of GST.) (Masked)"].t = "none"
LacksBillingStatus(r) == ~truthy(r["Billing Status"])

\* DataCleaner._generate_wo_caveats
generate_wo_caveats(records) ==
    IF records = <<>> THEN <<Caveat("no work order records", 0, 0)>>
    ELSE LET total == Len(records)
             null_collected == Count(records, LacksCollected)
             null_billed == Count(records, LacksBilled)
             null_billing == Count(records, LacksBillingStatus)
         IN (IF null_collected > 0
             THEN <<Caveat("collection data", null_collected, total)>> ELSE <<>>)
            \o (IF null_billed > 0
                THEN <<Caveat("billed value", null_billed, total)>> ELSE <<>>)
            \o (IF exceeds(null_billing, total, 5)
                THEN <<Caveat("billing status", null_billing, total)>> ELSE <<>>)

\* DataCleaner.clean_workorders followed by get_cleaning_log()
DataCleaner_clean_workorders(records) ==
    LET cleaned == [i \in 1..Len(records) |-> clean_workorder_record(records[i])]
        typo_fixes == Count(records, HasTypo)
    IN [cleaned |-> cleaned,
        caveats |-> generate_wo_caveats(cleaned),
        cleaning_log |-> IF typo_fixes > 0 THEN <<FixedTypos(typo_fixes)>> ELSE <<>>]
(***************************************************************************)
(* SpecClean: clean_deals and clean_workorders applied to boards of raw    *)
(* records, as parse_items_to_records hands them over                      *)
(***************************************************************************)
MaxCleanRecords == 2
MaxCaveatTotal == 20

\* what a monetary column can hold before cleaning: nothing, or the text of
\* the column (parse_items_to_records turns an empty text into None)
ValueInputs ==
    {NoneV,
     Str(<<"1", "2", "3", "4">>),
     Str(<<"1", ",", "2", "3", "4", ".", "5", "0">>),
     Str(<<" ", "1", "2", " ">>),
     Str(<<"-", "5">>),
     Str(<<"a", "b", "c">>),
     Str(<<"5", "3", "6", "0", " ", "H", "A">>),
     Str(<<"i", "n", "f">>),
     Str(<<"-", "I", "n", "f", "i", "n", "i", "t", "y">>),
     Str(<<"N", "a", "N">>),
     Str(<<"1", "e", "5">>),
     Str(<<"1", "e", "9", "9", "9">>),
     Str(<<".">>)}

\* what a date column can hold before cleaning
DateInputs ==
    {NoneV,
     Str(<<"2", "0", "2", "4", "-", "0", "3", "-", "1", "5">>),
     Str(<<"2", "0", "2", "4", "-", "0", "3", "-", "1", "5", "T", "1", "0", ":", "3", "0", ":", "0", "0">>),
     Str(<<"2", "0", "2", "4", "-", "0", "3", "-", "1", "5", "T", "1", "0", ":", "3", "0", ":", "0", "0", ".", "1", "2", "3">>),
     Str(<<"2", "0", "2", "4", "-", "0", "3", "-", "1", "5", " ", "1", "0", ":", "3", "0", ":", "0", "0">>),
     Str(<<"1", "5", "-", "0", "3", "-", "2", "0", "2", "4">>),
     Str(<<"1", "5", "/", "0", "3", "/", "2", "0", "2", "4">>),
     Str(<<"0", "3", "/", "0", "4", "/", "2", "0", "2", "4">>),
     Str(<<"1", "2", "/", "2", "5", "/", "2", "0", "2", "4">>),
     Str(<<"1", "3", "/", "2", "5", "/", "2", "0", "2", "4">>),
     Str(<<"1", "9", "9", "9", "-", "0", "5", "-", "0", "1">>),
     Str(<<"1", "9", "9", "9", "-", "0", "5", "-", "0", "1", "T", "0", "0", ":", "0", "0", ":", "0", "0">>),
     Str(<<"2", "1", "0", "0", "-", "0", "1", "-", "0", "1", "T", "0", "0", ":", "0", "0", ":", "0", "0">>),
     Str(<<"T", "B", "D">>),
     Str(<<"2", "0", "t", "h", " ", "M", "a", "y">>),
     Str(<<"2", "0", "2", "4", "-", "0", "2", "-", "2", "9">>),
     Str(<<"2", "0", "2", "4", "-", "0", "2", "-", "3", "0">>),
     Str(<<"2", "0", "2", "4", "-", "0", "3", "-", "1", "5", "t", "1", "0", ":", "3", "0", ":", "0", "0">>),
     Str(<<" ", "2", "0", "2", "4", "-", "0", "3", "-", "1", "5", " ">>),
     Str(<<"2", "0", "2", "4", "-", "3", "-", "5">>)}

\* a deal record with nothing wrong
BaseDeal ==
    [f \in DealFields |->
        CASE f = "Deal Status" -> Str(<<"W", "o", "n">>)
          [] f = "Deal Stage" -> Str(<<"P", "r", "o", "p", "o", "s", "a", "l">>)
          [] f = "Sector/service" -> Str(<<" ", "M", "i", "n", "i", "n", "g", " ">>)
          [] f = "Owner code" -> Str(<<"O", "W", "N", "1">>)
          [] f = "Masked Deal value" -> Str(<<"1", "0", "0">>)
          [] f = "Closure Probability" -> Str(<<"H", "i", "g", "h">>)
          [] OTHER -> Str(<<"2", "0", "2", "4", "-", "0", "3", "-", "1", "5">>)]

\* what the four header-checked columns can hold
HeaderInputs(field) ==
    CASE field = "Deal Status" ->
            {Str(<<"D", "e", "a", "l", " ", "S", "t", "a", "t", "u", "s">>), Str(<<" ", "D", "e", "a", "l", " ", "S", "t", "a", "t", "u", "s">>), Str(<<"W", "o", "n">>)}
      [] field = "Deal Stage" ->
            {Str(<<"D", "e", "a", "l", " ", "S", "t", "a", "g", "e">>), Str(<<"D", "e", "a", "l", " ", "S", "t", "a", "g", "e", " ">>), Str(<<"d", "e", "a", "l", " ", "s", "t", "a", "g", "e">>)}
      [] field = "Sector/service" -> {Str(<<"S", "e", "c", "t", "o", "r", "/", "s", "e", "r", "v", "i", "c", "e">>), NoneV}
      [] field = "Owner code" -> {Str(<<"O", "w", "n", "e", "r", " ", "c", "o", "d", "e">>), Str(<<"O", "W", "N", "1">>)}

DealWith(field, v) == [BaseDeal EXCEPT ![field] = v]

\* one deal whose value column holds each of the inputs
ValueBoards == {<<DealWith("Masked Deal value", v)>> : v \in ValueInputs}

\* one deal whose date column holds each of the inputs
DateBoards == {<<DealWith(f, v)>> : f \in date_fields, v \in DateInputs}

HeaderRecords ==
    {[f \in DealFields |-> IF f \in checks THEN h[f] ELSE BaseDeal[f]] :
        h \in {g \in [checks -> UNION {HeaderInputs(f) : f \in checks}] :
                 \A f \in checks : g[f] \in HeaderInputs(f)}}

\* boards in which rows repeat the column names, exactly or nearly
HeaderBoards == SeqsUpTo(HeaderRecords, MaxCleanRecords)

\* a board of `total` deals of which the first nv lack a value, the first nc
\* a close date, the first np a probability, the first nt a tentative date
CaveatBoard(total, nv, nc, np, nt) ==
    [i \in 1..total |->
        [f \in DealFields |->
            IF f = "Masked Deal value" /\ i <= nv
            THEN (IF i % 2 = 1 THEN NoneV ELSE Str(<<"a", "b", "c">>))
            ELSE IF f = "Close Date (A)" /\ i <= nc
            THEN (IF i % 2 = 1 THEN NoneV ELSE Str(<<"T", "B", "D">>))
            ELSE IF f = "Closure Probability" /\ i <= np
            THEN (IF i % 2 = 1 THEN NoneV ELSE Str(<<>>))
            ELSE IF f = "Tentative Close Date" /\ i <= nt THEN NoneV
            ELSE BaseDeal[f]]]

Totals == {0, 1, 2, 10, MaxCaveatTotal}

\* the counts around the 10% and the 50% thresholds
AroundThresholds(total) ==
    {0, 1, total \div 10, total \div 10 + 1, total \div 2, total \div 2 + 1, total}
        \cap 0..total

CaveatBoards ==
    UNION {{CaveatBoard(total, nv, nc, np, nt) :
                nv \in {0, 1} \cap 0..total, nc \in AroundThresholds(total),
                np \in AroundThresholds(total), nt \in AroundThresholds(total)} :
            total \in Totals}

BaseWorkOrder ==
    [f \in WorkOrderFields |->
        CASE f = "Billing Status" -> Str(Billed)
          [] f = "Execution Status" -> Str(<<"C", "o", "m", "p", "l", "e", "t", "e", "d", " ">>)
          [] f = "Sector" -> Str(<<"M", "i", "n", "i", "n", "g">>)
          [] f \in qty_fields -> Str(<<"5", "3", "6", "0", " ", "H", "A">>)
          [] OTHER -> Str(<<"1", "0", "0">>)]

\* one work order in which one financial column holds each of the inputs,
\* and work orders with the typo and with odd quantities
RawWorkOrderBoards ==
    {<<[BaseWorkOrder EXCEPT ![f] = v]>> : f \in financial_fields, v \in ValueInputs}
    \cup {<<[BaseWorkOrder EXCEPT !["Billing Status"] = b, !["Quantity by Ops"] = q]>> :
            b \in {Str(BIlled), Str(Billed), NoneV},
            q \in {Str(<<"5", "3", "6", "0", " ", "H", "A">>), Str(<<"1", ".", "2", ".", "3">>), NoneV}}

InitClean ==
    /\ p_pc = "ready"
    /\ p_input \in
         {[board |-> "deals", records |-> b] :
             b \in ValueBoards \cup DateBoards \cup HeaderBoards \cup CaveatBoards}
         \cup {[board |-> "workorders", records |-> b] : b \in RawWorkOrderBoards}
    /\ p_output = <<>>
    /\ AgentIdle /\ QueryIdle /\ RatesIdle /\ TruncIdle /\ StreamIdle /\ CleanerIdle
    /\ FetchIdle /\ OverlapIdle

PureFrame ==
    UNCHANGED <<agent_vars, query_vars, rates_vars, trunc_vars, stream_vars,
                cleaner_vars, fetch_vars, overlap_vars>>

\* cleaned, caveats = data_cleaner.clean_deals(records)
CleanDeals ==
    /\ p_pc = "ready"
    /\ p_input.board = "deals"
    /\ p_output' = DataCleaner_clean_deals(p_input.records)
    /\ p_pc' = "done"
    /\ UNCHANGED p_input
    /\ PureFrame

\* cleaned, caveats = data_cleaner.clean_workorders(records)
CleanWorkOrders ==
    /\ p_pc = "ready"
    /\ p_input.board = "workorders"
    /\ p_output' = DataCleaner_clean_workorders(p_input.records)
    /\ p_pc' = "done"
    /\ UNCHANGED p_input
    /\ PureFrame

NextClean == CleanDeals \/ CleanWorkOrders

SpecClean == InitClean /\ [][NextClean]_vars

(***************************************************************************)
(* Properties of the cleaning functions                                    *)
(***************************************************************************)
Cleaned(board) == p_pc = "done" /\ p_input.board = board

MonetaryFields(board) ==
    IF board = "deals" THEN {"Masked Deal value"} ELSE financial_fields

\* C24: after cleaning, the deal value and each of the 8 work-order
\* financial fields of every returned record is null or a finite float,
\* whatever the field held before: never a string, never a non-finite
\* number.
C24_MonetaryFieldsNullOrFinite ==
    p_pc = "done" =>
        \A i \in 1..Len(p_output.cleaned) : \A f \in MonetaryFields(p_input.board) :
            p_output.cleaned[i][f].t \in {"none", "float"}


\* how many of the four checked fields hold exactly their column name
LiteralMatches(r) ==
    Cardinality({f \in checks : r[f] = Str(expected_header(f))})

\* how many hold their column name once surrounding whitespace is dropped
StrippedMatches(r) ==
    Cardinality({f \in checks : r[f].t = "str" /\ strip(r[f].s) = expected_header(f)})

KeptLiterally(r) == LiteralMatches(r) < 2
KeptStripped(r) == StrippedMatches(r) < 2

\* clean_deals returned the records that Kept accepts, in order, and logged
\* the number of the others when there were any
DropsAllBut(Kept(_)) ==
    Cleaned("deals") =>
        LET kept == SelectSeq(p_input.records, Kept)
            dropped == Len(p_input.records) - Len(kept)
        IN /\ Len(p_output.cleaned) = Len(kept)
           /\ \A j \in 1..Len(kept) : \A f \in {"Deal Status", "Deal Stage"} :
                p_output.cleaned[j][f] = Str(strip(kept[j][f].s))
           /\ IF dropped > 0
              THEN /\ Len(p_output.cleaning_log) = 1
                   /\ p_output.cleaning_log[1].n = dropped
              ELSE p_output.cleaning_log = <<>>

\* C25 as stated: clean_deals drops a record exactly when at least 2 of its
\* fields status, stage, sector and owner code are literally equal to their
\* column name, and logs the number of dropped rows when it is not 0.
C25_DropsLiteralHeaderRows == DropsAllBut(KeptLiterally)

\* C25 amended: clean_deals drops a record exactly when at least 2 of the
\* four fields equal their column name after leading and trailing
\* whitespace is stripped from the value (the comparison stays
\* case-sensitive); zero or one such match keeps the record, and the
\* cleaning log reports the number of dropped rows when it is not 0.
C25_DropsStrippedHeaderRows == DropsAllBut(KeptStripped)

\* a row matching in two fields, one of them padded with a space, was
\* dropped while a row matching in one field was kept
C25_Witness ==
    /\ Cleaned("deals")
    /\ Len(p_input.records) = 2
    /\ StrippedMatches(p_input.records[1]) = 2
    /\ LiteralMatches(p_input.records[1]) = 1
    /\ StrippedMatches(p_input.records[2]) = 1
    /\ Len(p_output.cleaned) = 1
    /\ p_output.cleaned[1]["Owner code"] = p_input.records[2]["Owner code"]
    /\ p_output.cleaning_log[1].n = 1

StartsWithYear(chars) == Len(chars) >= 4 /\ \A i \in 1..4 : chars[i] \in Digits

\* the date the claim gives a string: null when it has a letter and no
\* 4-digit year in front, otherwise what the first fitting format gives
ClaimedDate(chars) ==
    IF any_alpha(chars) /\ ~StartsWithYear(chars) THEN NoneV
    ELSE try_formats(strip(chars), 1)

\* C27: date normalization returns null for a string that contains a letter
\* and does not start with a 4-digit year; every other string becomes the
\* ISO date of the first format that parses it (ISO date, ISO date-times,
\* day-first, month-first), or null when none does; so an ISO date-time is
\* normalized to its date whatever its year is.
C27_DatesNormalized ==
    (Cleaned("deals") /\ Len(p_input.records) = 1 /\ Len(p_output.cleaned) = 1) =>
        \A f \in date_fields :
            LET val == p_input.records[1][f] IN
            (truthy(val) /\ is_str(val)) =>
                p_output.cleaned[1][f] = ClaimedDate(val.s)

\* the records that lack a field, counted on what clean_deals returned
Missing(field) ==
    Cardinality({i \in 1..Len(p_output.cleaned) :
        p_output.cleaned[i][field] \in {NoneV, Str(<<>>)}})

NullValued ==
    Cardinality({i \in 1..Len(p_output.cleaned) :
        p_output.cleaned[i]["Masked Deal value"] = NoneV})

Emitted(about) == \E i \in 1..Len(p_output.caveats) : p_output.caveats[i].about = about

\* C28: for no records the deals caveats are the single "no records"
\* caveat; otherwise a deal-value caveat is emitted exactly when some record
\* has a null deal value, a close-date and a closure-probability caveat
\* each exactly when more than 50% of the records lack the field, and a
\* tentative-close-date caveat exactly when more than 10% lack it; each
\* caveat is emitted once and the records are returned as they were
\* cleaned.
C28_DealsCaveatThresholds ==
    Cleaned("deals") =>
        LET total == Len(p_output.cleaned) IN
        IF total = 0
        THEN /\ Len(p_output.caveats) = 1
             /\ p_output.caveats[1].about = "no deal records"
        ELSE /\ ~Emitted("no deal records")
             /\ Emitted("deal value") <=> NullValued >= 1
             /\ Emitted("close date") <=> 2 * Missing("Close Date (A)") > total
             /\ Emitted("closure probability") <=>
                    2 * Missing("Closure Probability") > total
             /\ Emitted("tentative close date") <=>
                    10 * Missing("Tentative Close Date") > total
             /\ \A i, j \in 1..Len(p_output.caveats) :
                    p_output.caveats[i].about = p_output.caveats[j].about => i = j
             /\ \A i \in 1..Len(p_output.caveats) :
                    p_output.caveats[i].total = total

\* ten deals: exactly 10% lack the tentative date and exactly 50% the close
\* date, which emits nothing; 60% lack the probability, which emits
C28_Witness ==
    /\ Cleaned("deals")
    /\ Len(p_output.cleaned) = 10
    /\ NullValued = 0
    /\ Missing("Tentative Close Date") = 1
    /\ Missing("Close Date (A)") = 5
    /\ Missing("Closure Probability") = 6
    /\ Len(p_output.caveats) = 1
    /\ p_output.caveats[1].about = "closure probability"
    /\ p_output.caveats[1].pct = 600


(***************************************************************************)
(* MondayClient.parse_items_to_records (monday_client.py 183-206).         *)
(*                                                                         *)
(* A record is a Python dict: a function from its keys to their values,    *)
(* where assigning to a key that is already there replaces its value.  A   *)
(* value is None or Some(string).  An item is [id, name, column_values],   *)
(* a column is [title, text, value] with text and value as the API sends   *)
(* them: null, or a string (value is a JSON document in a string).         *)
(***************************************************************************)

MaxColumns == 2

\* bool(v) of an optional string: None and "" are falsy
is_truthy(v) == v /= None /\ v /= Some("")

\* a or b
or_else(a, b) == IF is_truthy(a) THEN a ELSE b

\* record[key] = value
SetItem(record, key, value) ==
    [k \in DOMAIN record \cup {key} |-> IF k = key THEN value ELSE record[k]]

NotADict == [kind |-> "other", text |-> None, label |-> None]
JSONDecodeError == [kind |-> "error", text |-> None, label |-> None]
Dict(text, label) == [kind |-> "dict", text |-> text, label |-> label]

\* json.loads(raw_val) on the documents of RawValues: what it returns (only
\* the keys "text" and "label" of an object are read afterwards; dict.get
\* gives None for a key that is not there), or that it raises
json_loads(raw_val) ==
    CASE raw_val = "{\"label\":\"Done\"}" -> Dict(None, Some("Done"))
      [] raw_val = "{\"text\":\"Hi\",\"label\":\"X\"}" -> Dict(Some("Hi"), Some("X"))
      [] raw_val = "{\"text\":\"\",\"label\":\"Done\"}" -> Dict(Some(""), Some("Done"))
      [] raw_val = "{\"date\":\"2024-03-15\"}" -> Dict(None, None)
      [] raw_val = "17" -> NotADict
      [] OTHER -> JSONDecodeError

\* the body of `for col in item["column_values"]` on one column
parse_column(record, col) ==
    LET col_title == col.title
        text_val == col.text
        raw_val == col.value
        shown == SetItem(record, col_title,
                         IF is_truthy(text_val) THEN text_val ELSE None)
    IN IF is_truthy(raw_val) /\ ~is_truthy(text_val)
       THEN LET parsed == json_loads(raw_val[1])
            IN IF parsed.kind = "dict"
               THEN SetItem(shown, col_title, or_else(parsed.text, parsed.label))
               ELSE shown
       ELSE shown

RECURSIVE parse_columns(_, _)
parse_columns(record, column_values) ==
    IF column_values = <<>> THEN record
    ELSE parse_columns(parse_column(record, Head(column_values)),
                       Tail(column_values))

\* record = {"item_id": item["id"], "name": item["name"]}
new_record(item) ==
    [k \in {"item_id", "name"} |-> IF k = "item_id" THEN Some(item.id)
                                   ELSE Some(item.name)]

parse_items_to_records(items) ==
    [i \in 1..Len(items) |->
        parse_columns(new_record(items[i]), items[i].column_values)]

\* ---- inputs ------------------------------------------------------------

\* column titles of a board; Monday.com lets two columns carry one title and
\* lets a column be titled like the record's own keys
ColumnTitles == {"Status", "Owner", "name"}

TextValues == {None, Some(""), Some("Open")}

RawValues ==
    {None, Some(""), Some("{\"label\":\"Done\"}"),
     Some("{\"text\":\"Hi\",\"label\":\"X\"}"),
     Some("{\"text\":\"\",\"label\":\"Done\"}"),
     Some("{\"date\":\"2024-03-15\"}"), Some("17"), Some("not json")}

Columns ==
    [title : ColumnTitles, text : TextValues, value : RawValues]

ColumnLists == UNION {[1..n -> Columns] : n \in 0..MaxColumns}

PlainItem ==
    [id |-> "102", name |-> "Beta",
     column_values |-> <<[title |-> "Status", text |-> Some("Open"),
                          value |-> None]>>]

ItemLists ==
    {<<[id |-> "101", name |-> "Alpha", column_values |-> cols], PlainItem>> :
        cols \in ColumnLists}

InitParse ==
    /\ p_pc = "ready"
    /\ p_input \in ItemLists
    /\ p_output = <<>>
    /\ AgentIdle /\ QueryIdle /\ RatesIdle /\ TruncIdle /\ StreamIdle /\ CleanerIdle
    /\ FetchIdle /\ OverlapIdle

\* records = monday_client.parse_items_to_records(items)
ParseItems ==
    /\ p_pc = "ready"
    /\ p_output' = parse_items_to_records(p_input)
    /\ p_pc' = "done"
    /\ UNCHANGED p_input
    /\ PureFrame

NextParse == ParseItems

SpecParse == InitParse /\ [][NextParse]_vars

\* ---- C26 ---------------------------------------------------------------

\* the display text or label that a structured value carries, None when it
\* carries none or is no JSON object
DisplayOf(value) ==
    IF value = Some("{\"label\":\"Done\"}") THEN Some("Done")
    ELSE IF value = Some("{\"text\":\"Hi\",\"label\":\"X\"}") THEN Some("Hi")
    ELSE IF value = Some("{\"text\":\"\",\"label\":\"Done\"}") THEN Some("Done")
    ELSE None

\* what the record is to hold for a column
FieldOf(col) ==
    IF col.text \notin {None, Some("")} THEN col.text ELSE DisplayOf(col.value)

ColumnsIn(record, item) ==
    \A c \in 1..Len(item.column_values) :
        /\ item.column_values[c].title \in DOMAIN record
        /\ record[item.column_values[c].title] = FieldOf(item.column_values[c])

KeepsItem(record, item) ==
    /\ {"item_id", "name"} \subseteq DOMAIN record
    /\ record["item_id"] = Some(item.id)
    /\ record["name"] = Some(item.name)

DistinctTitles(item) ==
    /\ \A c, d \in 1..Len(item.column_values) :
          item.column_values[c].title = item.column_values[d].title => c = d
    /\ \A c \in 1..Len(item.column_values) :
          item.column_values[c].title \notin {"item_id", "name"}

\* C26: for every item the record has a key for every declared column,
\* titled like the column, holding the pre-rendered text if present, else the
\* text or label decoded from the structured value, else null; and the item's
\* identifier and name stay in the record.
C26_EveryColumnKept ==
    p_pc = "done" =>
        /\ Len(p_output) = Len(p_input)
        /\ \A i \in 1..Len(p_input) :
              /\ ColumnsIn(p_output[i], p_input[i])
              /\ KeepsItem(p_output[i], p_input[i])

\* the same, for the items whose column titles differ from each other and
\* from "item_id" and "name"
ColumnsKeptWhenTitlesDistinct ==
    p_pc = "done" =>
        /\ Len(p_output) = Len(p_input)
        /\ \A i \in 1..Len(p_input) :
              DistinctTitles(p_input[i]) =>
                  /\ ColumnsIn(p_output[i], p_input[i])
                  /\ KeepsItem(p_output[i], p_input[i])

\* two columns of one title with different contents were parsed
TwoColumnsOneTitleParsed ==
    /\ p_pc = "done"
    /\ \E c, d \in 1..Len(p_input[1].column_values) :
          /\ c < d
          /\ p_input[1].column_values[c].title = p_input[1].column_values[d].title
          /\ FieldOf(p_input[1].column_values[c])
                /= FieldOf(p_input[1].column_values[d])


(***************************************************************************)
(* SpecOverlap: turns of chat() and chat_stream.event_generator on one     *)
(* conversation that run at the same time (main.py:56-198).                *)
(*                                                                         *)
(* The handlers are coroutines on one event loop: a turn runs from its     *)
(* start to its first await (the graph), other turns run while it waits,   *)
(* and it runs from the graph's return to its end without another turn in  *)
(* between.  The graph itself is the one of Spec and SpecSession; here a   *)
(* run of it is the sequence of outputs of the reasoning capability.       *)
(***************************************************************************)
MaxOverlapTurns == 2

NotStarted ==
    [endpoint |-> "none", at |-> "not_started", history |-> <<>>,
     messages |-> <<>>, seen |-> <<>>, answer |-> ""]

\* request.message of turn i
RequestMessage(i) == "q_turn" \o ToString(i)

\* the ToolCall of a run that uses a tool
OverlapCall == [name |-> "no_such_tool", args |-> "{}", id |-> 1]

\* the runs of the graph for turn i: an answer at once, or one round of a
\* ToolCall (with or without text) and then the answer; the answer may be
\* empty
GraphRuns(i) ==
    LET finals == {AIMessage(a, <<>>) : a \in {"answer_turn" \o ToString(i), ""}}
    IN {<<f>> : f \in finals}
       \cup {<<AIMessage(text, <<OverlapCall>>), f>> :
                text \in ToolCallTexts, f \in finals}

\* result["messages"] of a run: the input, then every reasoning output
\* followed by the tool messages of its ToolCalls (add_messages)
RECURSIVE graph_result(_, _)
graph_result(msgs, run) ==
    IF run = <<>> THEN msgs
    ELSE LET resp == Head(run)
             tool_messages ==
                 IF resp.tool_calls = <<>> THEN <<>>
                 ELSE ExceptBranch(resp.tool_calls[1],
                                   UnknownToolError(resp.tool_calls[1].name)).message
         IN graph_result(msgs \o <<resp>> \o tool_messages, Tail(run))

\* accumulated_response once every chunk of the run was handled
RECURSIVE accumulate(_, _)
accumulate(acc, run) ==
    IF run = <<>> THEN acc
    ELSE accumulate(on_chat_model_stream([acc |-> acc, events |-> <<>>],
                                         Chunks(Head(run))).acc,
                    Tail(run))

InitOverlap ==
    /\ in_flight = [i \in 1..MaxOverlapTurns |-> NotStarted]
    /\ completed = <<>>
    /\ pc = "idle"
    /\ conversations \in [ConvIds -> {<<>>, LongHistory}]
    /\ chat_messages = <<>> /\ messages = <<>> /\ tool_traces = <<>>
    /\ data_caveats = <<>> /\ llm_input = <<>> /\ loop_i = 0
    /\ new_messages = <<>> /\ new_traces = <<>> /\ new_caveats = <<>>
    /\ invoked = <<>> /\ rounds = 0 /\ next_id = 1
    /\ response = NoResponse
    /\ QueryIdle /\ RatesIdle /\ TruncIdle /\ StreamIdle /\ CleanerIdle
    /\ FetchIdle /\ PureIdle

OverlapFrame ==
    /\ UNCHANGED <<pc, chat_messages, messages, tool_traces, data_caveats,
                   llm_input, loop_i, new_messages, new_traces, new_caveats,
                   invoked, rounds, next_id, response>>
    /\ UNCHANGED <<query_vars, rates_vars, trunc_vars, stream_vars, cleaner_vars,
                   fetch_vars, pure_vars>>

\* chat() / event_generator up to the await of the graph:
\* history = conversations.get(conv_id, []);
\* messages = history + [HumanMessage(content=request.message)]
TurnStarts(i, endpoint) ==
    /\ in_flight[i].at = "not_started"
    /\ in_flight' = [in_flight EXCEPT
          ![i] = [endpoint |-> endpoint, at |-> "awaiting",
                  history |-> conversations["c1"],
                  messages |-> conversations["c1"]
                                  \o <<HumanMessage(RequestMessage(i))>>,
                  seen |-> completed, answer |-> ""]]
    /\ UNCHANGED <<conversations, completed>>
    /\ OverlapFrame

\* chat(): graph.ainvoke returns; response_text is the content of the last
\* message, the history is stored and the response returned
ChatTurnReturns(i) ==
    /\ in_flight[i].endpoint = "chat"
    /\ in_flight[i].at = "awaiting"
    /\ \E run \in GraphRuns(i) :
         LET result == graph_result(in_flight[i].messages, run)
             response_text == Last(result).content
         IN /\ conversations' = StoreHistory("c1", in_flight[i].messages,
                                             response_text)
            /\ in_flight' = [in_flight EXCEPT ![i].at = "completed",
                                              ![i].answer = Last(run).content]
    /\ completed' = Append(completed, i)
    /\ OverlapFrame

\* event_generator: graph.astream_events is exhausted; the history is stored
\* if accumulated_response is not empty, and done is yielded
StreamTurnEnds(i) ==
    /\ in_flight[i].endpoint = "stream"
    /\ in_flight[i].at = "awaiting"
    /\ \E run \in GraphRuns(i) :
         /\ conversations' = store_streamed(conversations, "c1",
                                            in_flight[i].messages,
                                            accumulate("", run))
         /\ in_flight' = [in_flight EXCEPT ![i].at = "completed",
                                           ![i].answer = Last(run).content]
    /\ completed' = Append(completed, i)
    /\ OverlapFrame

\* the graph raises, or the request is cancelled while it awaits the graph:
\* chat() answers HTTP 500, event_generator yields the error event, and
\* neither assigns to conversations
TurnFails(i) ==
    /\ in_flight[i].at = "awaiting"
    /\ in_flight' = [in_flight EXCEPT ![i].at = "failed"]
    /\ UNCHANGED <<conversations, completed>>
    /\ OverlapFrame

NextOverlap ==
    \E i \in 1..MaxOverlapTurns :
        \/ TurnStarts(i, "chat")
        \/ TurnStarts(i, "stream")
        \/ ChatTurnReturns(i)
        \/ StreamTurnEnds(i)
        \/ TurnFails(i)

SpecOverlap == InitOverlap /\ [][NextOverlap]_vars

\* ---- C29 ---------------------------------------------------------------

\* turns i and j ran at the same time: neither had completed when the other
\* started
Overlapped(i, j) ==
    /\ i /= j
    /\ i \notin Range(in_flight[j].seen)
    /\ j \notin Range(in_flight[i].seen)

\* the history turn i is to leave: what it read at its start, its user
\* message and its answer, the last 20 of them
WrittenBy(i) ==
    LET exchange == <<[type |-> "human", content |-> RequestMessage(i),
                       tool_calls |-> <<>>, tool_call_id |-> 0,
                       payload |-> NoPayload],
                      [type |-> "ai", content |-> in_flight[i].answer,
                       tool_calls |-> <<>>, tool_call_id |-> 0,
                       payload |-> NoPayload]>>
        all == in_flight[i].history \o exchange
    IN IF Len(all) <= 20 THEN all ELSE SubSeq(all, Len(all) - 19, Len(all))

HoldsExchangeOf(history, j) ==
    \E k \in 1..Len(history) :
        history[k].type = "human" /\ history[k].content = RequestMessage(j)

AllTurnsOver ==
    \A i \in 1..MaxOverlapTurns : in_flight[i].at \in {"completed", "failed"}

LastWriteWins ==
    LET last == completed[Len(completed)]
    IN /\ conversations["c1"] = WrittenBy(last)
       /\ \A j \in Range(completed) :
             (j /= last /\ j \notin Range(in_flight[last].seen))
                 => ~HoldsExchangeOf(conversations["c1"], j)

\* C29: when two turns of one conversation overlap in time, the history
\* stored after both have completed is the one written by the turn that
\* completed last, built from the history that turn read at its start plus
\* its own user message and answer, and the other turn's exchange is absent
\* unless it had completed before the last writer started.
C29_LastWriteWins ==
    (/\ Len(completed) >= 2
     /\ \E j \in Range(completed) : Overlapped(j, completed[Len(completed)]))
        => LastWriteWins

\* the same, for a last writer that is a chat() turn or a streamed turn
\* whose accumulated text is its non-empty answer
LastWriteWinsWhenAnswerStored ==
    (/\ Len(completed) >= 2
     /\ \E j \in Range(completed) : Overlapped(j, completed[Len(completed)])
     /\ in_flight[completed[Len(completed)]].endpoint = "stream"
            => /\ in_flight[completed[Len(completed)]].answer /= ""
               /\ conversations["c1"] /= <<>>
               /\ Last(conversations["c1"]).content
                     = in_flight[completed[Len(completed)]].answer)
        => LastWriteWins

\* ---- C30 ---------------------------------------------------------------

Alternates(history) ==
    /\ Len(history) % 2 = 0
    /\ \A k \in 1..Len(history) :
          /\ history[k].type = (IF k % 2 = 1 THEN "human" ELSE "ai")
          /\ history[k].tool_calls = <<>>

\* C30: after any sequence of completed, failed and overlapping turns on
\* either endpoint, every stored history has an even number of messages,
\* starts with a user message and alternates user message, assistant
\* message; ToolCall requests, tool messages and the system prompt are never
\* stored.
C30_HistoryAlternates ==
    \A conv \in ConvIds : Alternates(conversations[conv])

\* a chat() turn and a streamed turn overlapped, both completed, and the
\* stored history is 20 messages long
C30_Witness ==
    /\ Len(completed) >= 2
    /\ \E i, j \in Range(completed) :
          /\ Overlapped(i, j)
          /\ in_flight[i].endpoint = "chat"
          /\ in_flight[j].endpoint = "stream"
          /\ in_flight[j].answer /= ""
    /\ Len(conversations["c1"]) = 20

====
